---- MODULE Spec2Model ----
(***************************************************************************)
(* The process driver of gofiler: Profiler.Run / Profiler.RunFunc, the     *)
(* subprocess they start, the three byte streams between driver and        *)
(* subprocess, and the stderr line buffer (logwriter).                     *)
(*                                                                         *)
(* Two revisions of Profiler.run are in the repository and both are        *)
(* modelled; the variable driver says which one a call executes:           *)
(*   "buffered"  src/profiler.go: the tokens are written to a bytes.Buffer,*)
(*               cmd.Stdin/cmd.Stdout are buffers, cmd.Run() starts the    *)
(*               subprocess and waits, the output is decoded afterwards;   *)
(*   "piped"     src/unnamed/part_002: cmd.StdinPipe/cmd.StdoutPipe,       *)
(*               cmd.Start(), writeTokens(stdin), f(stdout), cmd.Wait(),   *)
(*               one after the other on the calling goroutine.             *)
(*                                                                         *)
(* Go strings and byte slices are sequences of one-character strings.      *)
(* os/exec is modelled by its documented contract: a reader or writer      *)
(* that is not a file gets an OS pipe and a copying goroutine, Wait        *)
(* returns after the process has exited and the copying goroutines are     *)
(* done, a copy error EPIPE on stdin is dropped, and a context that        *)
(* becomes done before the command completes kills the process.            *)
(***************************************************************************)
EXTENDS Integers, Sequences, FiniteSets, TLC

VARIABLES
    pc,          \* position of the calling goroutine in Profiler.run
    driver,      \* which revision of Profiler.run the call executes
    mode,        \* "Run" (JSON document) or "RunFunc" (candidate lines)
    hasLog,      \* p.Log != nil
    tokens,      \* the tokens argument
    ctxDone,     \* ctx.Done() is closed
    proc,        \* the subprocess: "none", "running", "exited", "killed"
    exitCode,    \* exit status of a subprocess that exited by itself
    waited,      \* the subprocess has been waited on (reaped)
    blocked,     \* the stdout item the subprocess is blocked writing, or "none"
    inIdx,       \* number of token lines written to the stdin pipe so far
    inPipe,      \* stdin pipe: token lines written and not yet read
    inClosed,    \* the driver's end of the stdin pipe is closed
    outPipe,     \* stdout pipe: items written by the subprocess, unread
    buf,         \* buffered driver: the bytes.Buffer behind cmd.Stdout
    outDone,     \* buffered driver: the stdout copying goroutine saw EOF
    decIn,       \* what the output decoder f has consumed of its reader
    errPipe,     \* stderr pipe: bytes written by the subprocess, unread
    errRead,     \* bytes the stderr copying goroutine has passed to Write
    errDone,     \* the stderr copying goroutine saw EOF
    buffer,      \* logwriter.buffer
    logged,      \* the arguments of the Logger.Log calls so far, in order
    callbacks,   \* RunFunc: the lines the callback was invoked for, in order
    cbFailed,    \* RunFunc: the callback has returned a non-nil error
    profile,     \* Run: the Profile value returned (or being decoded into)
    err,         \* the error the call returned
    lastExitErr, \* error of the latest call that ended because the
                 \* subprocess exited by itself with non-zero status
    op,          \* codecs: the function applied last, "none" before
    arg,         \* codecs: the argument of the first function applied
    res,         \* codecs: what that function returned
    rt,          \* codecs: what the function returned for the text
                 \* rendered from res (round trip)
    runs         \* concurrent calls of one Profiler: the variables of
                 \* Profiler.run of each call, by number

vars == <<pc, driver, mode, hasLog, tokens, ctxDone, proc, exitCode, waited,
          blocked, inIdx, inPipe, inClosed, outPipe, buf, outDone, decIn,
          errPipe, errRead, errDone, buffer, logged, callbacks, cbFailed,
          profile, err, lastExitErr, op, arg, res, rt, runs>>

----------------------------------------------------------------------------
(* Bounds of the model *)

MaxTokens == 2   \* at most this many tokens per call
InCap == 1       \* capacity of the stdin pipe, in token lines
OutCap == 1      \* capacity of the stdout pipe, in items
ErrCap == 2      \* capacity of the stderr pipe, in bytes
MaxOut == 3      \* the subprocess writes at most this many stdout items
MaxErr == 2      \* the subprocess writes at most this many stderr bytes
MaxStream == 4   \* stderr line buffer alone: length of the byte stream
MaxChunk == 2    \* stderr line buffer alone: length of one Write
MaxField == 1    \* token encoder alone: length of LE, OCR and COR
MaxPatLen == 7   \* pattern codec alone: length of the expression
MaxInt == 11     \* the largest int (math.MaxInt), scaled to the expressions
MaxEntries == 2  \* global patterns alone: ocr tokens of a Profile
MaxFiles == 2    \* language lookup alone: entries of the backend directory
MaxCalls == 2    \* concurrent calls alone: calls of one Profiler

----------------------------------------------------------------------------
(* Strings *)

NL == "\n"

\* bytes.IndexByte, 1-based; 0 where Go returns -1
IndexByte(s, c) ==
    IF \E i \in 1..Len(s) : s[i] = c
    THEN CHOOSE i \in 1..Len(s) : s[i] = c /\ \A j \in 1..(i - 1) : s[j] # c
    ELSE 0

\* s[from:] of Go, with a 1-based first index
From(s, first) == SubSeq(s, first, Len(s))

RECURSIVE Concat(_)
Concat(ss) == IF ss = <<>> THEN <<>> ELSE Head(ss) \o Concat(Tail(ss))

----------------------------------------------------------------------------
(* Token encoder *)

Token(le, ocr, cor) == [LE |-> le, OCR |-> ocr, COR |-> cor]

\* a String that tells a lexicon entry by an empty OCR
TokenStringByOCR(t) ==
    IF Len(t.OCR) > 0
    THEN t.OCR \o <<":">> \o t.COR
    ELSE <<"#">> \o t.LE

\* Token.String
TokenString(t) ==
    IF Len(t.LE) > 0
    THEN <<"#">> \o t.LE
    ELSE t.OCR \o <<":">> \o t.COR

\* the tokens of the test suite, shortened
TestTokens ==
    << Token(<<"L">>, <<>>, <<>>),
       Token(<<>>, <<"o">>, <<"c">>),
       Token(<<>>, <<"o">>, <<>>),
       Token(<<"L">>, <<"o">>, <<"c">>) >>

\* a writer that ends the stream with a line of its own
RECURSIVE writeTokensSentinel(_)
writeTokensSentinel(ts) ==
    IF ts = <<>> THEN << <<".", NL>> >>
    ELSE <<TokenString(Head(ts)) \o <<NL>>>> \o writeTokensSentinel(Tail(ts))

\* writeTokens: one line per token, String() followed by a newline
RECURSIVE writeTokens(_)
writeTokens(ts) ==
    IF ts = <<>> THEN <<>>
    ELSE <<TokenString(Head(ts)) \o <<NL>>>> \o writeTokens(Tail(ts))

----------------------------------------------------------------------------
(* logwriter *)

\* the loop cut one byte late: the newline is logged with the line
RECURSIVE DrainLinesKeepNL(_, _)
DrainLinesKeepNL(b, log) ==
    LET pos == IndexByte(b, NL) IN
    IF pos = 0
    THEN [buffer |-> b, logged |-> log]
    ELSE DrainLinesKeepNL(From(b, pos + 1), Append(log, SubSeq(b, 1, pos)))

\* the loop of logwriter.Write: log and cut every complete line of b
RECURSIVE DrainLines(_, _)
DrainLines(b, log) ==
    LET pos == IndexByte(b, NL) IN
    IF pos = 0
    THEN [buffer |-> b, logged |-> log]
    ELSE DrainLines(From(b, pos + 1), Append(log, SubSeq(b, 1, pos - 1)))

\* Write that logs what is left after the last newline too
LwWriteFlush(b, log, p) ==
    LET r == DrainLines(b \o p, log) IN
    IF r.buffer = <<>> THEN r
    ELSE [buffer |-> <<>>, logged |-> Append(r.logged, r.buffer)]

\* a Write that looks for lines in p alone and keeps what is left of p
LwWritePerChunk(b, log, p) == DrainLines(p, log)

\* logwriter.Write(p) on a logwriter with buffer b and a logger that has
\* seen log
LwWrite(b, log, p) == DrainLines(b \o p, log)

----------------------------------------------------------------------------
(* Errors.  Profiler.run formats every error with fmt.Errorf and %v, so the *)
(* caller gets a new error value that holds a text and nothing else: a      *)
(* prefix naming the phase and the text of the cause.                       *)

Error(prefix, cause) == [prefix |-> prefix, cause |-> cause]

NilErr == Error("", "nil")

\* the error of cmd.Start / cmd.Run / cmd.Wait, wrapped by run
ExecError(d, cause) ==
    IF cause = "nil" THEN NilErr
    ELSE IF d = "buffered" THEN Error("cannot profile tokens", cause)
    ELSE Error("run profiler", cause)

\* the error of the token writer of the piped driver, wrapped by run
WriteError(cause) == Error("run profiler: write token", cause)

\* the error of the output decoder f, wrapped by Run or RunFunc and by run
ReadError(d, m, cause) ==
    IF cause = "nil" THEN NilErr
    ELSE IF d = "buffered" THEN Error("cannot read profile", cause)
    ELSE IF m = "Run" THEN Error("run profiler: cannot decode profile", cause)
    ELSE IF cause = "scanner" THEN Error("run profiler", cause)
    ELSE Error("run profiler: read candidate", cause)

\* what exec.Cmd.Wait reports for a subprocess in state p with status code
WaitCause(p, code) ==
    IF p = "killed" THEN "signal: killed"
    ELSE IF code # 0 THEN "exit status 1"
    ELSE "nil"

----------------------------------------------------------------------------
(* Output decoders *)

NilProfile == [nil |-> TRUE, members |-> <<>>]

\* the stdout items a subprocess started in mode m writes: the parts of a
\* JSON document ("ok" a well-typed member, "bad" a member with a value of
\* the wrong type), or candidate lines ("ok" and "ok2" are two different
\* lines that parse, "bad" does not)
OutItems(m) ==
    IF m = "Run" THEN {"null", "open", "ok", "bad", "close"}
    ELSE {"ok", "ok2", "bad"}

\* json.Decoder scanning the input read so far: "value" when it holds one
\* complete JSON value, "syntax" when it cannot be the start of one,
\* "more" otherwise
JsonScan(in) ==
    IF in = <<>> THEN "more"
    ELSE IF Head(in) = "null" THEN (IF Len(in) = 1 THEN "value" ELSE "syntax")
    ELSE IF Head(in) # "open" THEN "syntax"
    ELSE IF \E i \in 2..(Len(in) - 1) : in[i] \notin {"ok", "bad"} THEN "syntax"
    ELSE IF Len(in) = 1 THEN "more"
    ELSE IF in[Len(in)] = "close" THEN "value"
    ELSE IF in[Len(in)] \in {"ok", "bad"} THEN "more"
    ELSE "syntax"

\* json.Decoder.Decode(&profile) once the input in is scanned (eof: the
\* reader ended): the profile it leaves behind and the error it returns.
\* A value of the wrong type is skipped, the rest is decoded, and the first
\* such error is returned.
Decode(in, eof, p) ==
    LET st == JsonScan(in) IN
    IF st = "syntax" THEN [profile |-> p, cause |-> "invalid character"]
    ELSE IF st = "more" THEN
        [profile |-> p,
         cause |-> IF ~eof THEN "more"
                   ELSE IF in = <<>> THEN "EOF" ELSE "unexpected EOF"]
    ELSE IF Head(in) = "null" THEN [profile |-> p, cause |-> "nil"]
    ELSE LET ms == SubSeq(in, 2, Len(in) - 1) IN
         [profile |-> [nil |-> FALSE, members |-> ms],
          cause |-> IF \E i \in 1..Len(ms) : ms[i] = "bad"
                    THEN "cannot unmarshal" ELSE "nil"]

\* MakeCandidate on a line of the simple output
MakeCandidateFails(line) == line = "bad"

----------------------------------------------------------------------------
(* The state after construction: no call in progress *)

Idle ==
    /\ pc = "idle"
    /\ driver = "buffered"
    /\ mode = "Run"
    /\ hasLog = FALSE
    /\ tokens = <<>>
    /\ ctxDone = FALSE
    /\ proc = "none"
    /\ exitCode = 0
    /\ waited = FALSE
    /\ blocked = "none"
    /\ inIdx = 0
    /\ inPipe = <<>>
    /\ inClosed = FALSE
    /\ outPipe = <<>>
    /\ buf = <<>>
    /\ outDone = FALSE
    /\ decIn = <<>>
    /\ errPipe = <<>>
    /\ errRead = <<>>
    /\ errDone = FALSE
    /\ buffer = <<>>
    /\ logged = <<>>
    /\ callbacks = <<>>
    /\ cbFailed = FALSE
    /\ profile = NilProfile
    /\ err = NilErr
    /\ runs = <<>>

\* no codec function applied
NoCodec == op = "none" /\ arg = <<>> /\ res = <<>> /\ rt = <<>>

Init == Idle /\ lastExitErr = NilErr /\ NoCodec

\* the variables of the subprocess and its pipes
procVars == <<proc, exitCode, blocked, inPipe, outPipe, errPipe>>
\* the variables of the stderr line buffer
logVars == <<errRead, errDone, buffer, logged>>
\* the inputs of a call
callVars == <<driver, mode, hasLog, tokens>>
\* the results of a call
resVars == <<callbacks, cbFailed, profile, err>>
\* the variables of the codecs
codecVars == <<op, arg, res, rt>>

\* the line the driver logs before it starts the subprocess
CmdLine == <<"c", "m", "d", ":">>

----------------------------------------------------------------------------
(* Profiler.run, calling goroutine *)

\* the call without the log of the command line
CallNoCmdLine(d, m, l, n) ==
    /\ pc = "idle"
    /\ n <= Len(TestTokens)
    /\ pc' = "start"
    /\ driver' = d
    /\ mode' = m
    /\ hasLog' = l
    /\ tokens' = SubSeq(TestTokens, 1, n)
    /\ UNCHANGED <<ctxDone, waited, inIdx, inClosed, buf, outDone, decIn,
                   errRead, errDone, buffer, logged, lastExitErr>>
    /\ UNCHANGED procVars
    /\ UNCHANGED resVars
    /\ UNCHANGED codecVars
    /\ UNCHANGED runs

\* Run / RunFunc up to the start of the subprocess: the arguments are
\* built, (buffered) the tokens are written to the buffer, the command is
\* made and the command line is logged
Call(d, m, l, n) ==
    /\ pc = "idle"
    /\ n <= Len(TestTokens)
    /\ pc' = "start"
    /\ driver' = d
    /\ mode' = m
    /\ hasLog' = l
    /\ tokens' = SubSeq(TestTokens, 1, n)
    /\ logged' = IF l THEN Append(logged, CmdLine) ELSE logged
    /\ UNCHANGED <<ctxDone, waited, inIdx, inClosed, buf, outDone, decIn,
                   errRead, errDone, buffer, lastExitErr>>
    /\ UNCHANGED procVars
    /\ UNCHANGED resVars
    /\ UNCHANGED codecVars
    /\ UNCHANGED runs

\* the call returns e
Return(e) ==
    /\ pc' = "returned"
    /\ err' = e

\* cmd.Start (piped, after StdinPipe and StdoutPipe) or the start inside
\* cmd.Run (buffered); fail is the step that fails, or "none"
Start(fail) ==
    /\ pc = "start"
    /\ IF fail \in {"stdin", "stdout"}
       THEN /\ driver = "piped"
            /\ Return(Error("run profiler: connect " \o fail, "pipe"))
            /\ UNCHANGED <<proc, inClosed, outDone, errDone>>
       ELSE IF ctxDone \/ fail = "start"
       THEN /\ Return(ExecError(driver,
                        IF ctxDone THEN "context canceled" ELSE "not found"))
            /\ UNCHANGED <<proc, inClosed, outDone, errDone>>
       ELSE /\ proc' = "running"
            /\ pc' = IF driver = "buffered" THEN "waiting" ELSE "writing"
            /\ err' = err
            /\ UNCHANGED <<inClosed, outDone, errDone>>
    /\ UNCHANGED <<ctxDone, exitCode, waited, blocked, inIdx, inPipe, outPipe,
                   buf, decIn, errPipe, errRead, buffer, logged, callbacks,
                   cbFailed, profile, lastExitErr>>
    /\ UNCHANGED callVars
    /\ UNCHANGED codecVars
    /\ UNCHANGED runs

\* piped: one iteration of the loop of writeTokens(stdin, tokens); a write
\* to the pipe of a subprocess that is gone fails (EPIPE), a write to a
\* full pipe blocks
WriteToken ==
    /\ pc = "writing"
    /\ inIdx < Len(tokens)
    /\ IF proc # "running"
       THEN /\ Return(WriteError("broken pipe"))
            /\ inClosed' = TRUE
            /\ UNCHANGED <<inIdx, inPipe>>
       ELSE /\ Len(inPipe) < InCap
            /\ inPipe' = Append(inPipe, writeTokens(tokens)[inIdx + 1])
            /\ inIdx' = inIdx + 1
            /\ UNCHANGED <<pc, err, inClosed>>
    /\ UNCHANGED <<ctxDone, proc, exitCode, waited, blocked, outPipe, buf,
                   outDone, decIn, errPipe, callbacks, cbFailed, profile,
                   lastExitErr>>
    /\ UNCHANGED callVars
    /\ UNCHANGED logVars
    /\ UNCHANGED codecVars
    /\ UNCHANGED runs

\* piped: writeTokens returns nil after the last token; its deferred
\* w.Close() closes the stdin pipe
WriteTokensDone ==
    /\ pc = "writing"
    /\ inIdx = Len(tokens)
    /\ inClosed' = TRUE
    /\ pc' = "reading"
    /\ UNCHANGED <<ctxDone, waited, inIdx, buf, outDone, decIn, lastExitErr>>
    /\ UNCHANGED procVars
    /\ UNCHANGED callVars
    /\ UNCHANGED logVars
    /\ UNCHANGED resVars
    /\ UNCHANGED codecVars
    /\ UNCHANGED runs

\* the reader f reads from, and whether it is at its end
Source == IF driver = "buffered" THEN buf ELSE outPipe
SourceEOF == Source = <<>> /\ (driver = "buffered" \/ proc # "running")

\* f returned cause to run: piped, run goes on to cmd.Wait after nil;
\* buffered, run returns nil after nil; both return the wrapped error
AfterF(cause) ==
    IF cause # "nil" THEN Return(ReadError(driver, mode, cause))
    ELSE IF driver = "piped" THEN pc' = "waiting" /\ err' = err
    ELSE Return(NilErr)

\* the decoder of Run, json.NewDecoder(r).Decode(&profile): it reads until
\* it holds one JSON value, meets a syntax error or the reader ends
DecodeStep ==
    /\ pc \in {"reading", "decoding"}
    /\ mode = "Run"
    /\ IF Source # <<>>
       THEN LET in == Append(decIn, Head(Source))
                r == Decode(in, FALSE, profile)
            IN /\ decIn' = in
               /\ IF driver = "buffered"
                  THEN buf' = Tail(buf) /\ outPipe' = outPipe
                  ELSE outPipe' = Tail(outPipe) /\ buf' = buf
               /\ IF r.cause = "more"
                  THEN UNCHANGED <<pc, err, profile>>
                  ELSE profile' = r.profile /\ AfterF(r.cause)
       ELSE /\ SourceEOF
            /\ LET r == Decode(decIn, TRUE, profile)
               IN profile' = r.profile /\ AfterF(r.cause)
            /\ UNCHANGED <<decIn, buf, outPipe>>
    /\ UNCHANGED <<ctxDone, proc, exitCode, waited, blocked, inIdx, inPipe,
                   inClosed, outDone, errPipe, callbacks, cbFailed,
                   lastExitErr>>
    /\ UNCHANGED callVars
    /\ UNCHANGED logVars
    /\ UNCHANGED codecVars
    /\ UNCHANGED runs

\* a scanner loop that invokes the callback for the first line it reads only
ScanStepFirstOnly(cbErr) ==
    /\ pc \in {"reading", "decoding"}
    /\ mode = "RunFunc"
    /\ IF Source # <<>>
       THEN LET line == Head(Source) IN
            /\ decIn' = Append(decIn, line)
            /\ IF driver = "buffered"
               THEN buf' = Tail(buf) /\ outPipe' = outPipe
               ELSE outPipe' = Tail(outPipe) /\ buf' = buf
            /\ IF MakeCandidateFails(line)
               THEN /\ ~cbErr
                    /\ AfterF("make candidate")
                    /\ UNCHANGED <<callbacks, cbFailed>>
               ELSE IF decIn # <<>>
               THEN /\ ~cbErr
                    /\ UNCHANGED <<pc, err, callbacks, cbFailed>>
               ELSE /\ callbacks' = Append(callbacks, line)
                    /\ cbFailed' = cbErr
                    /\ IF cbErr THEN AfterF("callback")
                       ELSE UNCHANGED <<pc, err>>
       ELSE /\ SourceEOF
            /\ ~cbErr
            /\ AfterF("nil")
            /\ UNCHANGED <<decIn, buf, outPipe, callbacks, cbFailed>>
    /\ UNCHANGED <<ctxDone, proc, exitCode, waited, blocked, inIdx, inPipe,
                   inClosed, outDone, errPipe, profile, lastExitErr>>
    /\ UNCHANGED callVars
    /\ UNCHANGED logVars
    /\ UNCHANGED codecVars
    /\ UNCHANGED runs

\* the decoder of RunFunc, one iteration of the bufio.Scanner loop:
\* MakeCandidate on the next line, then the callback, which returns an
\* error (cbErr) or nil; at the end of the reader the loop ends
ScanStep(cbErr) ==
    /\ pc \in {"reading", "decoding"}
    /\ mode = "RunFunc"
    /\ IF Source # <<>>
       THEN LET line == Head(Source) IN
            /\ decIn' = Append(decIn, line)
            /\ IF driver = "buffered"
               THEN buf' = Tail(buf) /\ outPipe' = outPipe
               ELSE outPipe' = Tail(outPipe) /\ buf' = buf
            /\ IF MakeCandidateFails(line)
               THEN /\ ~cbErr
                    /\ AfterF("make candidate")
                    /\ UNCHANGED <<callbacks, cbFailed>>
               ELSE /\ callbacks' = Append(callbacks, line)
                    /\ cbFailed' = cbErr
                    /\ IF cbErr THEN AfterF("callback")
                       ELSE UNCHANGED <<pc, err>>
       ELSE /\ SourceEOF
            /\ ~cbErr
            /\ AfterF("nil")
            /\ UNCHANGED <<decIn, buf, outPipe, callbacks, cbFailed>>
    /\ UNCHANGED <<ctxDone, proc, exitCode, waited, blocked, inIdx, inPipe,
                   inClosed, outDone, errPipe, profile, lastExitErr>>
    /\ UNCHANGED callVars
    /\ UNCHANGED logVars
    /\ UNCHANGED codecVars
    /\ UNCHANGED runs

\* a wait for the subprocess alone, not for the stderr copying goroutine
WaitNoStderr ==
    /\ pc = "waiting"
    /\ proc \in {"exited", "killed"}
    /\ driver = "buffered" => inClosed /\ outDone
    /\ waited' = TRUE
    /\ LET cause == WaitCause(proc, exitCode) IN
       IF driver = "buffered" /\ cause = "nil"
       THEN pc' = "decoding" /\ err' = err
       ELSE Return(ExecError(driver, cause))
    /\ UNCHANGED <<ctxDone, inIdx, inClosed, buf, outDone, decIn, callbacks,
                   cbFailed, profile, lastExitErr>>
    /\ UNCHANGED procVars
    /\ UNCHANGED callVars
    /\ UNCHANGED logVars
    /\ UNCHANGED codecVars
    /\ UNCHANGED runs

\* a driver that starts the subprocess again after a non-zero exit status
WaitRestart ==
    /\ pc = "waiting"
    /\ proc \in {"exited", "killed"}
    /\ hasLog => errDone
    /\ driver = "buffered" => inClosed /\ outDone
    /\ LET cause == WaitCause(proc, exitCode) IN
       IF cause = "exit status 1"
       THEN /\ pc' = "start" /\ proc' = "none" /\ waited' = waited
            /\ err' = err
       ELSE /\ waited' = TRUE /\ proc' = proc
            /\ IF driver = "buffered" /\ cause = "nil"
               THEN pc' = "decoding" /\ err' = err
               ELSE Return(ExecError(driver, cause))
    /\ UNCHANGED <<ctxDone, inIdx, inClosed, buf, outDone, decIn, callbacks,
                   cbFailed, profile, lastExitErr>>
    /\ UNCHANGED <<exitCode, blocked, inPipe, outPipe, errPipe>>
    /\ UNCHANGED callVars
    /\ UNCHANGED logVars
    /\ UNCHANGED codecVars
    /\ UNCHANGED runs

\* a buffered run that goes on to f(&buf) whatever cmd.Run returned
WaitThenDecode ==
    /\ pc = "waiting"
    /\ proc \in {"exited", "killed"}
    /\ hasLog => errDone
    /\ driver = "buffered" => inClosed /\ outDone
    /\ waited' = TRUE
    /\ LET cause == WaitCause(proc, exitCode) IN
       IF driver = "buffered"
       THEN pc' = "decoding" /\ err' = err
       ELSE Return(ExecError(driver, cause))
    /\ UNCHANGED <<ctxDone, inIdx, inClosed, buf, outDone, decIn, callbacks,
                   cbFailed, profile, lastExitErr>>
    /\ UNCHANGED procVars
    /\ UNCHANGED callVars
    /\ UNCHANGED logVars
    /\ UNCHANGED codecVars
    /\ UNCHANGED runs

\* cmd.Wait returns: the subprocess has ended and the copying goroutines
\* of the call are done.  Piped: run returns what Wait returned.  Buffered
\* (the Wait of cmd.Run): run returns the error, or goes on to f(&buf).
Wait ==
    /\ pc = "waiting"
    /\ proc \in {"exited", "killed"}
    /\ hasLog => errDone
    /\ driver = "buffered" => inClosed /\ outDone
    /\ waited' = TRUE
    /\ LET cause == WaitCause(proc, exitCode) IN
       IF driver = "buffered" /\ cause = "nil"
       THEN pc' = "decoding" /\ err' = err
       ELSE Return(ExecError(driver, cause))
    /\ UNCHANGED <<ctxDone, inIdx, inClosed, buf, outDone, decIn, callbacks,
                   cbFailed, profile, lastExitErr>>
    /\ UNCHANGED procVars
    /\ UNCHANGED callVars
    /\ UNCHANGED logVars
    /\ UNCHANGED codecVars
    /\ UNCHANGED runs

----------------------------------------------------------------------------
(* The copying goroutines of os/exec *)

\* buffered: the goroutine copying the token buffer to the stdin pipe; it
\* stops at the end of the buffer or at a write error, EPIPE is not
\* reported, and it closes the pipe
StdinCopy ==
    /\ driver = "buffered"
    /\ proc # "none"
    /\ ~inClosed
    /\ IF inIdx < Len(tokens) /\ proc = "running"
       THEN /\ Len(inPipe) < InCap
            /\ inPipe' = Append(inPipe, writeTokens(tokens)[inIdx + 1])
            /\ inIdx' = inIdx + 1
            /\ inClosed' = inClosed
       ELSE /\ inClosed' = TRUE
            /\ UNCHANGED <<inIdx, inPipe>>
    /\ UNCHANGED <<pc, ctxDone, proc, exitCode, waited, blocked, outPipe, buf,
                   outDone, decIn, errPipe, lastExitErr>>
    /\ UNCHANGED callVars
    /\ UNCHANGED logVars
    /\ UNCHANGED resVars
    /\ UNCHANGED codecVars
    /\ UNCHANGED runs

\* buffered: the goroutine copying the stdout pipe to the buffer
StdoutCopy ==
    /\ driver = "buffered"
    /\ proc # "none"
    /\ ~outDone
    /\ IF outPipe # <<>>
       THEN /\ buf' = Append(buf, Head(outPipe))
            /\ outPipe' = Tail(outPipe)
            /\ outDone' = outDone
       ELSE /\ proc # "running"
            /\ outDone' = TRUE
            /\ UNCHANGED <<buf, outPipe>>
    /\ UNCHANGED <<pc, ctxDone, proc, exitCode, waited, blocked, inIdx, inPipe,
                   inClosed, decIn, errPipe, lastExitErr>>
    /\ UNCHANGED callVars
    /\ UNCHANGED logVars
    /\ UNCHANGED resVars
    /\ UNCHANGED codecVars
    /\ UNCHANGED runs

\* the goroutine copying the stderr pipe to the logwriter: it reads the
\* first k bytes of the pipe and calls Write with them
StderrCopy(k) ==
    /\ hasLog
    /\ proc # "none"
    /\ ~errDone
    /\ IF errPipe # <<>>
       THEN /\ k \in 1..Len(errPipe)
            /\ LET p == SubSeq(errPipe, 1, k)
                   r == LwWrite(buffer, logged, p)
               IN /\ buffer' = r.buffer
                  /\ logged' = r.logged
                  /\ errRead' = errRead \o p
                  /\ errPipe' = From(errPipe, k + 1)
            /\ errDone' = errDone
       ELSE /\ k = 1
            /\ proc # "running"
            /\ errDone' = TRUE
            /\ UNCHANGED <<buffer, logged, errRead, errPipe>>
    /\ UNCHANGED <<pc, ctxDone, proc, exitCode, waited, blocked, inIdx, inPipe,
                   inClosed, outPipe, buf, outDone, decIn, lastExitErr>>
    /\ UNCHANGED callVars
    /\ UNCHANGED resVars
    /\ UNCHANGED codecVars
    /\ UNCHANGED runs

\* the command made without the context: nothing kills the subprocess
CancelNoKill ==
    /\ pc # "idle"
    /\ ~ctxDone
    /\ pc = "returned" => proc = "running"
    /\ ctxDone' = TRUE
    /\ UNCHANGED <<pc, exitCode, waited, inIdx, inClosed, outPipe, buf,
                   outDone, decIn, errPipe, lastExitErr>>
    /\ UNCHANGED <<proc, inPipe, blocked>>
    /\ UNCHANGED callVars
    /\ UNCHANGED logVars
    /\ UNCHANGED resVars
    /\ UNCHANGED codecVars
    /\ UNCHANGED runs

\* the goroutine of exec.CommandContext: the context becomes done; a
\* subprocess that is still running is killed
Cancel ==
    /\ pc # "idle"
    /\ ~ctxDone
    /\ pc = "returned" => proc = "running"
    /\ ctxDone' = TRUE
    /\ IF proc = "running"
       THEN proc' = "killed" /\ inPipe' = <<>> /\ blocked' = "none"
       ELSE UNCHANGED <<proc, inPipe, blocked>>
    /\ UNCHANGED <<pc, exitCode, waited, inIdx, inClosed, outPipe, buf,
                   outDone, decIn, errPipe, lastExitErr>>
    /\ UNCHANGED callVars
    /\ UNCHANGED logVars
    /\ UNCHANGED resVars
    /\ UNCHANGED codecVars
    /\ UNCHANGED runs

----------------------------------------------------------------------------
(* The subprocess: any program.  It reads its stdin or not, writes any *)
(* output, and exits with any status or never.                         *)

ErrBytes == {"a", NL}

\* the stdout items written so far, in order
Emitted ==
    decIn \o buf \o outPipe \o (IF blocked = "none" THEN <<>> ELSE <<blocked>>)

\* the subprocess writes x after sofar: with --jsonOutput it writes a JSON
\* document (or stops part-way), or something that is no JSON at all
\* (a first item "bad"); with --simpleOutput it writes lines
MayWrite(m, sofar, x) ==
    IF m = "RunFunc" THEN x \in OutItems(m)
    ELSE IF sofar = <<>> THEN x \in {"null", "open", "bad"}
    ELSE /\ Head(sofar) = "open"
         /\ sofar[Len(sofar)] # "close"
         /\ x \in {"ok", "bad", "close"}

procIdle == proc = "running" /\ blocked = "none"

\* it reads a token line
ProcRead ==
    /\ procIdle
    /\ inPipe # <<>>
    /\ inPipe' = Tail(inPipe)
    /\ UNCHANGED <<pc, ctxDone, proc, exitCode, waited, blocked, inIdx,
                   inClosed, outPipe, buf, outDone, decIn, errPipe,
                   lastExitErr>>
    /\ UNCHANGED callVars
    /\ UNCHANGED logVars
    /\ UNCHANGED resVars
    /\ UNCHANGED codecVars
    /\ UNCHANGED runs

\* it writes x to stdout; the write blocks while the pipe is full
ProcWrite(x) ==
    /\ procIdle
    /\ Len(Emitted) < MaxOut
    /\ MayWrite(mode, Emitted, x)
    /\ IF Len(outPipe) < OutCap
       THEN outPipe' = Append(outPipe, x) /\ blocked' = blocked
       ELSE blocked' = x /\ outPipe' = outPipe
    /\ UNCHANGED <<pc, ctxDone, proc, exitCode, waited, inIdx, inPipe,
                   inClosed, buf, outDone, decIn, errPipe, lastExitErr>>
    /\ UNCHANGED callVars
    /\ UNCHANGED logVars
    /\ UNCHANGED resVars
    /\ UNCHANGED codecVars
    /\ UNCHANGED runs

\* its blocked write to stdout completes
ProcUnblock ==
    /\ proc = "running"
    /\ blocked # "none"
    /\ Len(outPipe) < OutCap
    /\ outPipe' = Append(outPipe, blocked)
    /\ blocked' = "none"
    /\ UNCHANGED <<pc, ctxDone, proc, exitCode, waited, inIdx, inPipe,
                   inClosed, buf, outDone, decIn, errPipe, lastExitErr>>
    /\ UNCHANGED callVars
    /\ UNCHANGED logVars
    /\ UNCHANGED resVars
    /\ UNCHANGED codecVars
    /\ UNCHANGED runs

\* it writes the byte b to stderr (kept only when a logger is there)
ProcLog(b) ==
    /\ procIdle
    /\ hasLog
    /\ b \in ErrBytes
    /\ Len(errRead) + Len(errPipe) < MaxErr
    /\ Len(errPipe) < ErrCap
    /\ errPipe' = Append(errPipe, b)
    /\ UNCHANGED <<pc, ctxDone, proc, exitCode, waited, blocked, inIdx,
                   inPipe, inClosed, outPipe, buf, outDone, decIn,
                   lastExitErr>>
    /\ UNCHANGED callVars
    /\ UNCHANGED logVars
    /\ UNCHANGED resVars
    /\ UNCHANGED codecVars
    /\ UNCHANGED runs

\* it exits with status code; what it has not read of stdin is lost
ProcExit(code) ==
    /\ procIdle
    /\ proc' = "exited"
    /\ exitCode' = code
    /\ inPipe' = <<>>
    /\ UNCHANGED <<pc, ctxDone, waited, blocked, inIdx, inClosed, outPipe,
                   buf, outDone, decIn, errPipe, lastExitErr>>
    /\ UNCHANGED callVars
    /\ UNCHANGED logVars
    /\ UNCHANGED resVars
    /\ UNCHANGED codecVars
    /\ UNCHANGED runs

----------------------------------------------------------------------------
(* How a call ended *)

\* the causes a subprocess that is gone produces in the driver
GoneCauses ==
    {"broken pipe", "EOF", "unexpected EOF", "signal: killed", "exit status 1"}

\* the call ended because the context was done
EndedByCancel ==
    /\ pc = "returned"
    /\ \/ err.cause = "context canceled"
       \/ proc = "killed" /\ err.cause \in GoneCauses

\* the call ended because the subprocess exited by itself, status non-zero
EndedByExit ==
    /\ pc = "returned"
    /\ proc = "exited" /\ exitCode # 0
    /\ err.cause \in GoneCauses

\* the caller is done with the call; the next call is a new invocation
Reset ==
    /\ pc = "returned"
    /\ lastExitErr' = IF EndedByExit THEN err ELSE lastExitErr
    /\ pc' = "idle"
    /\ driver' = "buffered"
    /\ mode' = "Run"
    /\ hasLog' = FALSE
    /\ tokens' = <<>>
    /\ ctxDone' = FALSE
    /\ proc' = "none"
    /\ exitCode' = 0
    /\ waited' = FALSE
    /\ blocked' = "none"
    /\ inIdx' = 0
    /\ inPipe' = <<>>
    /\ inClosed' = FALSE
    /\ outPipe' = <<>>
    /\ buf' = <<>>
    /\ outDone' = FALSE
    /\ decIn' = <<>>
    /\ errPipe' = <<>>
    /\ errRead' = <<>>
    /\ errDone' = FALSE
    /\ buffer' = <<>>
    /\ logged' = <<>>
    /\ callbacks' = <<>>
    /\ cbFailed' = FALSE
    /\ profile' = NilProfile
    /\ err' = NilErr
    /\ UNCHANGED codecVars
    /\ UNCHANGED runs

----------------------------------------------------------------------------
(* Specifications *)

Drivers == {"buffered", "piped"}
Modes == {"Run", "RunFunc"}

\* a step of the driver: the calling goroutine or a copying goroutine
DriverStep ==
    \/ \E fail \in {"none", "start", "stdin", "stdout"} : Start(fail)
    \/ WriteToken
    \/ WriteTokensDone
    \/ DecodeStep
    \/ \E cbErr \in BOOLEAN : ScanStep(cbErr)
    \/ Wait
    \/ StdinCopy
    \/ StdoutCopy
    \/ \E k \in 1..ErrCap : StderrCopy(k)

\* a step of the subprocess, its stderr bytes taken from bytes
ProcStepOf(bytes) ==
    \/ ProcRead
    \/ \E x \in OutItems("Run") : ProcWrite(x)
    \/ ProcUnblock
    \/ \E b \in bytes : ProcLog(b)
    \/ \E code \in {0, 1} : ProcExit(code)

\* a step of the subprocess
ProcStep == ProcStepOf(ErrBytes)

Next ==
    \/ \E d \in Drivers, m \in Modes, l \in BOOLEAN, n \in 0..MaxTokens :
          Call(d, m, l, n)
    \/ DriverStep
    \/ ProcStep
    \/ Cancel

\* one call
Spec == Init /\ [][Next]_vars

\* calls one after the other; what a call returns does not depend on which
\* bytes the subprocess writes to stderr: here they are newlines
NextSeq ==
    \/ \E d \in Drivers, m \in Modes, l \in BOOLEAN, n \in 0..MaxTokens :
          Call(d, m, l, n)
    \/ DriverStep
    \/ ProcStepOf({NL})
    \/ Cancel
    \/ Reset

SpecSeq == Init /\ [][NextSeq]_vars

\* one call under the Go scheduler, which runs every goroutine that can
\* take a step; nothing is assumed of the subprocess, of the context or of
\* the caller.  Whether a call ends depends on how many bytes the
\* subprocess writes to stderr, not on which: here they are newlines.
NextFair ==
    \/ \E d \in Drivers, m \in Modes, l \in BOOLEAN, n \in 0..MaxTokens :
          Call(d, m, l, n)
    \/ DriverStep
    \/ ProcStepOf({NL})
    \/ Cancel

FairSpec == Init /\ [][NextFair]_vars /\ WF_vars(DriverStep)

\* RunFunc alone, without a logger: the subprocess writes any candidate
\* lines, two different well-formed ones among them
NextFunc ==
    \/ \E d \in Drivers, n \in 0..MaxTokens : Call(d, "RunFunc", FALSE, n)
    \/ \E fail \in {"none", "start", "stdin", "stdout"} : Start(fail)
    \/ WriteToken
    \/ WriteTokensDone
    \/ \E cbErr \in BOOLEAN : ScanStep(cbErr)
    \/ Wait
    \/ StdinCopy
    \/ StdoutCopy
    \/ Cancel
    \/ ProcRead
    \/ \E x \in OutItems("RunFunc") : ProcWrite(x)
    \/ ProcUnblock
    \/ \E code \in {0, 1} : ProcExit(code)

SpecFunc == Init /\ [][NextFunc]_vars

----------------------------------------------------------------------------
(* The stderr line buffer alone: a logwriter and the Write calls on it *)

LogBytes == {"a", "b", NL}

\* the byte slices a Write call may get, the empty one included
Chunks == UNION {[1..n -> LogBytes] : n \in 0..MaxChunk}

\* logwriter.Write(p) called directly; res is what it returns
Write(p) ==
    /\ pc = "idle"
    /\ Len(errRead) + Len(p) <= MaxStream
    /\ LET r == LwWrite(buffer, logged, p)
       IN /\ buffer' = r.buffer
          /\ logged' = r.logged
    /\ errRead' = errRead \o p
    /\ op' = "Write"
    /\ arg' = p
    /\ res' = [n |-> Len(p), err |-> NilErr]
    /\ UNCHANGED <<pc, ctxDone, waited, inIdx, inClosed, buf, outDone, decIn,
                   errDone, lastExitErr>>
    /\ UNCHANGED procVars
    /\ UNCHANGED callVars
    /\ UNCHANGED resVars
    /\ UNCHANGED rt
    /\ UNCHANGED runs

NextLog == \E p \in Chunks : Write(p)

SpecLog == Init /\ [][NextLog]_vars

----------------------------------------------------------------------------
(* The codecs alone: a function of the package applied to an argument *)

\* the variables of the driver, which no codec touches
driverVars ==
    <<pc, driver, mode, hasLog, tokens, ctxDone, proc, exitCode, waited,
      blocked, inIdx, inPipe, inClosed, outPipe, buf, outDone, decIn,
      errPipe, errRead, errDone, buffer, logged, callbacks, cbFailed,
      profile, err, lastExitErr>>

\* the strings over chars of length up to n
Strings(chars, n) == UNION {[1..k -> chars] : k \in 0..n}

\* the bytes of the fields of a token: a letter and the two bytes the
\* input grammar of the profiler gives a meaning to
TokenChars == {"a", "#", ":"}

TokenArgs ==
    {Token(le, ocr, cor) : le \in Strings(TokenChars, MaxField),
                           ocr \in Strings(TokenChars, MaxField),
                           cor \in Strings(TokenChars, MaxField)}

InitToken ==
    /\ Idle /\ lastExitErr = NilErr
    /\ op = "none" /\ arg \in TokenArgs /\ res = <<>> /\ rt = <<>>

\* t.String() on the token arg
StringOfToken ==
    /\ op = "none"
    /\ op' = "String"
    /\ res' = TokenString(arg)
    /\ UNCHANGED <<arg, rt>>
    /\ UNCHANGED driverVars
    /\ UNCHANGED runs

NextToken == StringOfToken

SpecToken == InitToken /\ [][NextToken]_vars

----------------------------------------------------------------------------
(* The argument list of the subprocess.  An argument is a Go string and is *)
(* a string here.                                                          *)

\* args of Profiler.Run
RunArgs(config) ==
    <<"--config", config, "--sourceFormat", "EXT", "--sourceFile",
      "/dev/stdin", "--jsonOutput", "/dev/stdout">>

\* args of Profiler.RunFunc
RunFuncArgs(config) ==
    <<"--config", config, "--sourceFormat", "EXT", "--sourceFile",
      "/dev/stdin", "--simpleOutput">>

\* a run that appends --adaptive before --types
runArgsAdaptiveFirst(args, types, adaptive) ==
    LET a1 == IF adaptive THEN Append(args, "--adaptive") ELSE args
    IN IF types THEN Append(a1, "--types") ELSE a1

\* what Profiler.run appends to the args it is given
runArgs(args, types, adaptive) ==
    LET a1 == IF types THEN Append(args, "--types") ELSE args
    IN IF adaptive THEN Append(a1, "--adaptive") ELSE a1

\* the arguments exec.CommandContext gets after p.Exe
CommandArgs(m, config, types, adaptive) ==
    runArgs(IF m = "Run" THEN RunArgs(config) ELSE RunFuncArgs(config),
            types, adaptive)

\* configuration paths, some of them spelled like a flag
Configs ==
    {"german.ini", "", "a b", "--types", "--adaptive", "--jsonOutput",
     "/dev/stdout"}

ArgsArgs ==
    [mode : Modes, config : Configs, Types : BOOLEAN, Adaptive : BOOLEAN]

InitArgs ==
    /\ Idle /\ lastExitErr = NilErr
    /\ op = "none" /\ arg \in ArgsArgs /\ res = <<>> /\ rt = <<>>

\* Run or RunFunc of a Profiler with the options of arg, up to
\* exec.CommandContext
BuildArgs ==
    /\ op = "none"
    /\ op' = "args"
    /\ res' = CommandArgs(arg.mode, arg.config, arg.Types, arg.Adaptive)
    /\ UNCHANGED <<arg, rt>>
    /\ UNCHANGED driverVars
    /\ UNCHANGED runs

NextArgs == BuildArgs

SpecArgs == InitArgs /\ [][NextArgs]_vars

----------------------------------------------------------------------------
(* Package regexp.  An expression is a sequence of literals and of greedy  *)
(* captured stars over a class of bytes; a match is the one a backtracking *)
(* search finds first, as regexp documents.                                *)

Lit(c) == [t |-> "lit", c |-> c]
Star(cls) == [t |-> "star", c |-> cls]

Digits == {"0", "1", "2", "3", "4", "5", "6", "7", "8", "9"}

\* "any" is ., "digit" is \d, "notclose" is [^)]
InClass(ch, cls) ==
    CASE cls = "any" -> ch # NL
      [] cls = "digit" -> ch \in Digits
      [] cls = "notclose" -> ch # ")"

\* the length of the longest run of bytes of class cls in s from i on
RunLen(s, i, cls) ==
    LET stops == {j \in i..Len(s) : ~InClass(s[j], cls)} IN
    IF stops = {} THEN Len(s) + 1 - i
    ELSE (CHOOSE j \in stops : \A k \in stops : j <= k) - i

NoMatch == [ok |-> FALSE, caps |-> <<>>, start |-> 0, end |-> 0]

\* the positions of s at which the element h of an expression can start
\* when what follows h can start at the positions nxt
Starts(s, h, nxt) ==
    IF h.t = "lit"
    THEN {i \in 1..Len(s) : s[i] = h.c /\ i + 1 \in nxt}
    ELSE {i \in 1..(Len(s) + 1) :
            \E n \in 0..RunLen(s, i, h.c) : i + n \in nxt}

\* for each suffix of re, the first being re itself and the last the
\* empty expression, the positions of s at which a match of it starts
RECURSIVE Tables(_, _)
Tables(s, re) ==
    IF re = <<>> THEN <<1..(Len(s) + 1)>>
    ELSE LET t == Tables(s, Tail(re)) IN  \* never empty
         IF t = <<>> THEN <<>> ELSE <<Starts(s, Head(re), t[1])>> \o t

\* the captures and the end of the match of re that a backtracking search
\* finds first at i, a position of tabs[1]: a star takes the longest run
\* of its class after which the rest of re still matches
RECURSIVE Walk(_, _, _, _)
Walk(s, i, re, tabs) ==
    IF re = <<>> THEN [caps |-> <<>>, end |-> i]
    ELSE IF Head(re).t = "lit" THEN Walk(s, i + 1, Tail(re), Tail(tabs))
    ELSE LET good == {k \in 0..RunLen(s, i, Head(re).c) : i + k \in tabs[2]}
             n == CHOOSE k \in good : \A l \in good : l <= k
             r == Walk(s, i + n, Tail(re), Tail(tabs))
         IN [caps |-> <<SubSeq(s, i, i + n - 1)>> \o r.caps, end |-> r.end]

\* the first match of re in s that starts at i
MatchAt(s, i, re) ==
    LET tabs == Tables(s, re) IN
    IF i \notin tabs[1] THEN NoMatch
    ELSE LET r == Walk(s, i, re, tabs) IN
         [ok |-> TRUE, caps |-> r.caps, start |-> i, end |-> r.end]

\* the leftmost match of re in s that starts at first or later
FindFrom(s, first, re) ==
    LET tabs == Tables(s, re)
        from == {i \in tabs[1] : i >= first}
    IN IF from = {} THEN NoMatch
       ELSE LET i == CHOOSE k \in from : \A l \in from : k <= l
                r == Walk(s, i, re, tabs)
            IN [ok |-> TRUE, caps |-> r.caps, start |-> i, end |-> r.end]

\* Regexp.FindStringSubmatch: the leftmost match; ok is FALSE for nil
FindStringSubmatch(s, re) == FindFrom(s, 1, re)

\* Regexp.FindAllString(s, -1) for an expression that matches no empty
\* string: the leftmost matches one after the other
RECURSIVE FindAllFrom(_, _, _)
FindAllFrom(s, first, re) ==
    LET m == FindFrom(s, first, re) IN
    IF ~m.ok THEN <<>>
    ELSE <<SubSeq(s, m.start, m.end - 1)>> \o FindAllFrom(s, m.end, re)

----------------------------------------------------------------------------
(* Package strconv *)

DigitSeq == <<"0", "1", "2", "3", "4", "5", "6", "7", "8", "9">>

DigitVal(c) == (CHOOSE k \in 1..10 : DigitSeq[k] = c) - 1

\* the number a string of digits denotes
RECURSIVE Value(_)
Value(ds) ==
    IF ds = <<>> THEN 0
    ELSE 10 * Value(SubSeq(ds, 1, Len(ds) - 1)) + DigitVal(ds[Len(ds)])

\* strconv.Atoi on a string of digits: 0 and an error for the empty
\* string, the largest int and an error for a number out of range
Atoi(ds) ==
    IF ds = <<>> THEN [val |-> 0, ok |-> FALSE]
    ELSE IF Value(ds) > MaxInt THEN [val |-> MaxInt, ok |-> FALSE]
    ELSE [val |-> Value(ds), ok |-> TRUE]

\* the verb %d on an int that is not negative
RECURSIVE Itoa(_)
Itoa(n) ==
    IF n < 10 THEN <<DigitSeq[n + 1]>>
    ELSE Itoa(n \div 10) \o <<DigitSeq[(n % 10) + 1]>>

----------------------------------------------------------------------------
(* Pattern codec *)

Pattern(left, right, pos) ==
    [Left |-> left, Right |-> right, Prob |-> 0, Pos |-> pos]

\* `\((.*):(.*),(\d*)\)`
PatternRE ==
    <<Lit("("), Star("any"), Lit(":"), Star("any"), Lit(","), Star("digit"),
      Lit(")")>>

\* MakePattern: the pattern and whether the error is nil; the error of
\* strconv.Atoi is dropped
MakePattern(expr) ==
    LET m == FindStringSubmatch(expr, PatternRE) IN
    IF ~m.ok THEN [ok |-> FALSE, p |-> Pattern(<<>>, <<>>, 0)]
    ELSE [ok |-> TRUE,
          p |-> Pattern(m.caps[1], m.caps[2], Atoi(m.caps[3]).val)]

\* a String with the two sides in the other order
PatternStringRightFirst(p) ==
    <<"(">> \o p.Right \o <<":">> \o p.Left \o <<",">> \o Itoa(p.Pos) \o <<")">>

\* Pattern.String
PatternString(p) ==
    <<"(">> \o p.Left \o <<":">> \o p.Right \o <<",">> \o Itoa(p.Pos) \o <<")">>

\* the bytes of a pattern expression: the four bytes of the grammar and a
\* digit, which is any other byte when it is in Left or Right
PatternChars == {"(", ")", ":", ",", "1"}

PatternArgs == Strings(PatternChars, MaxPatLen)

InitPattern ==
    /\ Idle /\ lastExitErr = NilErr
    /\ op = "none" /\ arg \in PatternArgs /\ res = <<>> /\ rt = <<>>

\* MakePattern(arg)
ParsePattern ==
    /\ op = "none"
    /\ op' = "MakePattern"
    /\ res' = MakePattern(arg)
    /\ UNCHANGED <<arg, rt>>
    /\ UNCHANGED driverVars
    /\ UNCHANGED runs

\* MakePattern(p.String()) for the pattern p that MakePattern returned
\* without an error
ReparsePattern ==
    /\ op = "MakePattern"
    /\ res.ok
    /\ op' = "round trip"
    /\ rt' = MakePattern(PatternString(res.p))
    /\ UNCHANGED <<arg, res>>
    /\ UNCHANGED driverVars
    /\ UNCHANGED runs

NextPattern == ParsePattern \/ ReparsePattern

SpecPattern == InitPattern /\ [][NextPattern]_vars

----------------------------------------------------------------------------
(* Floating point numbers of the candidate codec.  A float32 is kept as    *)
(* the decimal number it was parsed from, m * 10^e with m not a multiple   *)
(* of 10: a decimal of up to six digits and the float32 nearest to it      *)
(* determine each other.  Signs, NaN and the infinities are left out.      *)

AllDigits(ds) == \A i \in 1..Len(ds) : ds[i] \in Digits

\* m * 10^e without the zeros at the end of m
RECURSIVE Normal(_, _)
Normal(m, e) ==
    IF m = 0 THEN [m |-> 0, e |-> 0]
    ELSE IF m % 10 = 0 THEN Normal(m \div 10, e + 1)
    ELSE [m |-> m, e |-> e]

\* strconv.ParseFloat(text, 32): digits, a point and digits, an exponent
ParseFloat(text) ==
    LET ePos == IndexByte(text, "e")
        mant == IF ePos = 0 THEN text ELSE SubSeq(text, 1, ePos - 1)
        expo == IF ePos = 0 THEN <<>> ELSE From(text, ePos + 1)
        dot == IndexByte(mant, ".")
        ip == IF dot = 0 THEN mant ELSE SubSeq(mant, 1, dot - 1)
        fp == IF dot = 0 THEN <<>> ELSE From(mant, dot + 1)
        signed == expo # <<>> /\ Head(expo) \in {"+", "-"}
        ed == IF signed THEN Tail(expo) ELSE expo
        ev == IF ePos = 0 THEN 0
              ELSE IF signed /\ Head(expo) = "-" THEN 0 - Value(ed)
              ELSE Value(ed)
    IN IF /\ AllDigits(ip) /\ AllDigits(fp) /\ Len(ip) + Len(fp) > 0
          /\ AllDigits(ed) /\ (ePos # 0 => ed # <<>>)
       THEN [ok |-> TRUE, val |-> Normal(Value(ip \o fp), ev - Len(fp))]
       ELSE [ok |-> FALSE, val |-> Normal(0, 0)]

\* n zeros
Zeros(n) == [i \in 1..n |-> "0"]

\* the exponent of %e and %g: e, a sign and at least two digits
FormatExp(x) ==
    LET ds == Itoa(IF x < 0 THEN 0 - x ELSE x) IN
    <<"e", IF x < 0 THEN "-" ELSE "+">> \o
    (IF Len(ds) < 2 THEN <<"0">> \o ds ELSE ds)

\* the verb %e on a float32: one digit, a point, six digits, the exponent
FormatE(v) ==
    LET ds == Itoa(v.m)
        x == IF v.m = 0 THEN 0 ELSE Len(ds) + v.e - 1
        frac == Tail(ds) \o Zeros(6 - (Len(ds) - 1))
    IN <<Head(ds), ".">> \o SubSeq(frac, 1, 6) \o FormatExp(x)

\* the verb %g on a float32: the shortest digits, with an exponent when it
\* is below -4 or at least 6
FormatG(v) ==
    LET ds == Itoa(v.m)
        dp == Len(ds) + v.e
        x == dp - 1
    IN IF v.m = 0 THEN <<"0">>
       ELSE IF x < 0 - 4 \/ x >= 6
       THEN <<Head(ds)>> \o
            (IF Len(ds) > 1 THEN <<".">> \o Tail(ds) ELSE <<>>) \o FormatExp(x)
       ELSE IF dp <= 0 THEN <<"0", ".">> \o Zeros(0 - dp) \o ds
       ELSE IF dp >= Len(ds) THEN ds \o Zeros(dp - Len(ds))
       ELSE SubSeq(ds, 1, dp) \o <<".">> \o From(ds, dp + 1)

FormatFloat(v, verb) == IF verb = "e" THEN FormatE(v) ELSE FormatG(v)

----------------------------------------------------------------------------
(* Candidate codec.  The words ocr, voteWeight=, levDistance= and dict= of *)
(* the expression are one byte each here.                                  *)

\* `(.*)@(.*):\{(.*)\+\[(.*)\]\}\+ocr\[(.*)\],voteWeight=(.*),levDistance=(\d*),dict=(.*)`
CandidateRE ==
    <<Star("any"), Lit("@"),
      Star("any"), Lit(":"), Lit("{"),
      Star("any"), Lit("+"), Lit("["),
      Star("any"), Lit("]"), Lit("}"), Lit("+"), Lit("ocr"), Lit("["),
      Star("any"), Lit("]"), Lit(","), Lit("voteWeight="),
      Star("any"), Lit(","), Lit("levDistance="),
      Star("digit"), Lit(","), Lit("dict="),
      Star("any")>>

\* `((\([^)]*\)))`
ChunkRE == <<Lit("("), Star("notclose"), Lit(")")>>

\* the loop of str2ps over the matches ms
RECURSIVE MakePatterns(_)
MakePatterns(ms) ==
    IF ms = <<>> THEN [ok |-> TRUE, ps |-> <<>>]
    ELSE LET p == MakePattern(Head(ms))
             r == MakePatterns(Tail(ms))
         IN IF p.ok /\ r.ok
            THEN [ok |-> TRUE, ps |-> <<p.p>> \o r.ps]
            ELSE [ok |-> FALSE, ps |-> <<>>]

\* str2ps; a nil slice is the empty sequence
str2ps(expr) == MakePatterns(FindAllFrom(expr, 1, ChunkRE))

\* ps2str, without the brackets the caller or ps2str itself adds
RECURSIVE ps2str(_)
ps2str(ps) ==
    IF ps = <<>> THEN <<>> ELSE PatternString(Head(ps)) \o ps2str(Tail(ps))

NoCandidate ==
    [ok |-> FALSE, ocr |-> <<>>,
     c |-> [Suggestion |-> <<>>, Modern |-> <<>>, Dict |-> <<>>,
            HistPatterns |-> <<>>, OCRPatterns |-> <<>>, Distance |-> 0,
            Weight |-> Normal(0, 0)]]

\* MakeCandidate: the candidate, the ocr token and whether the error is nil
MakeCandidate(expr) ==
    LET m == FindStringSubmatch(expr, CandidateRE) IN
    IF ~m.ok THEN NoCandidate
    ELSE LET dist == Atoi(m.caps[7])
             weight == ParseFloat(m.caps[6])
             hpats == str2ps(m.caps[4])
             opats == str2ps(m.caps[5])
         IN IF ~dist.ok \/ ~weight.ok \/ ~hpats.ok \/ ~opats.ok
            THEN NoCandidate
            ELSE [ok |-> TRUE, ocr |-> m.caps[1],
                  c |-> [Suggestion |-> m.caps[2], Modern |-> m.caps[3],
                         Dict |-> m.caps[8], HistPatterns |-> hpats.ps,
                         OCRPatterns |-> opats.ps, Distance |-> dist.val,
                         Weight |-> weight.val]]

\* a String with the two pattern lists in the other order
CandidateStringOcrFirst(c, verb) ==
    c.Suggestion \o <<":", "{">> \o c.Modern \o <<"+", "[">> \o
    ps2str(c.OCRPatterns) \o <<"]", "}", "+", "ocr", "[">> \o
    ps2str(c.HistPatterns) \o <<"]", ",", "voteWeight=">> \o
    FormatFloat(c.Weight, verb) \o <<",", "levDistance=">> \o
    Itoa(c.Distance) \o <<",", "dict=">> \o c.Dict

\* Candidate.String, the weight with the verb %g (part_003) or %e
\* (profile.go)
CandidateString(c, verb) ==
    c.Suggestion \o <<":", "{">> \o c.Modern \o <<"+", "[">> \o
    ps2str(c.HistPatterns) \o <<"]", "}", "+", "ocr", "[">> \o
    ps2str(c.OCRPatterns) \o <<"]", ",", "voteWeight=">> \o
    FormatFloat(c.Weight, verb) \o <<",", "levDistance=">> \o
    Itoa(c.Distance) \o <<",", "dict=">> \o c.Dict

\* the texts of the ocr token and of the suggestion of a line: a letter,
\* or bytes the expression gives a meaning
FieldTexts == {<<"a">>, <<"@", ":", "{">>}

\* the texts of the modern form and of the dict of a line
TailTexts == {<<"a">>, <<"]", ",", "dict=">>}

\* the texts of a pattern list of a line: none, one, two with an empty
\* pos and a zero before the pos, one after other bytes, and one without
\* its three parts
ListTexts ==
    {<<>>,
     <<"(", "a", ":", "b", ",", "1", ")">>,
     <<"(", "a", ":", ",", ")", "(", ":", "b", ",", "0", "1", ")">>,
     <<"a", "]", "(", "a", ":", "b", ",", "1", "1", ")">>,
     <<"(", "a", ")">>}

\* the texts of the weight of a line
WeightTexts ==
    {<<"1">>, <<".", "5", "0">>, <<"1", "2", "e", "-", "7">>, <<"a">>}

\* the texts of the distance of a line
DistTexts == {<<"1">>, <<"0", "1", "0">>, <<>>}

\* the candidate record made of the texts
Record(sug, mod, h, o, w, d, dict) ==
    sug \o <<":", "{">> \o mod \o <<"+", "[">> \o h \o
    <<"]", "}", "+", "ocr", "[">> \o o \o <<"]", ",", "voteWeight=">> \o w \o
    <<",", "levDistance=">> \o d \o <<",", "dict=">> \o dict

\* the line of the simple output made of the texts
Line(t, sug, mod, h, o, w, d, dict) ==
    t \o <<"@">> \o Record(sug, mod, h, o, w, d, dict)

CandidateArgs ==
    {[verb |-> v, expr |-> Line(t, sug, mod, h, o, w, d, dict)] :
        v \in {"g", "e"}, t \in FieldTexts, sug \in FieldTexts,
        mod \in TailTexts, h \in ListTexts, o \in ListTexts,
        w \in WeightTexts, d \in DistTexts, dict \in TailTexts}

InitCandidate ==
    /\ Idle /\ lastExitErr = NilErr
    /\ op = "none" /\ arg \in CandidateArgs /\ res = <<>> /\ rt = <<>>

\* MakeCandidate(arg.expr)
ParseCandidate ==
    /\ op = "none"
    /\ op' = "MakeCandidate"
    /\ res' = MakeCandidate(arg.expr)
    /\ UNCHANGED <<arg, rt>>
    /\ UNCHANGED driverVars
    /\ UNCHANGED runs

\* MakeCandidate(t + "@" + c.String()) for the candidate c and the ocr
\* token t that MakeCandidate returned without an error
ReparseCandidate ==
    /\ op = "MakeCandidate"
    /\ res.ok
    /\ op' = "round trip"
    /\ rt' = MakeCandidate(res.ocr \o <<"@">> \o CandidateString(res.c, arg.verb))
    /\ UNCHANGED <<arg, res>>
    /\ UNCHANGED driverVars
    /\ UNCHANGED runs

NextCandidate == ParseCandidate \/ ReparseCandidate

SpecCandidate == InitCandidate /\ [][NextCandidate]_vars

\* candidate records without an @: a suggestion, a modern form, lists of
\* none, one and two patterns, a weight, a distance and a dict
Records ==
    {Record(sug, <<"a">>, h, o, w, d, dict) :
        sug \in {<<"a">>, <<"b", "a">>},
        h \in {<<>>, <<"(", "a", ":", "b", ",", "1", ")">>,
                <<"(", "a", ":", "b", ",", "1", ")",
                  "(", "b", ":", "a", ",", "0", ")">>},
        o \in {<<>>, <<"(", "a", ":", "b", ",", "1", ")">>,
                <<"(", "a", ":", "b", ",", "1", ")",
                  "(", "b", ":", "a", ",", "0", ")">>},
        w \in {<<"1">>, <<".", "5", "0">>, <<"1", "2", "e", "-", "7">>},
        d \in {<<"1">>, <<"1", "0">>},
        dict \in {<<"a">>, <<>>}}

\* the ocr tokens put before the @ of a record
Prefixes == {<<"a">>, <<"a", "b">>}

\* a record as it stands, or after an ocr token and an @
RecordArgs ==
    {[verb |-> "g", expr |-> r, prefixed |-> FALSE, ocr |-> <<>>] :
        r \in Records}
    \cup
    {[verb |-> "g", expr |-> t \o <<"@">> \o r, prefixed |-> TRUE, ocr |-> t] :
        t \in Prefixes, r \in Records}

InitRecord ==
    /\ Idle /\ lastExitErr = NilErr
    /\ op = "none" /\ arg \in RecordArgs /\ res = <<>> /\ rt = <<>>

NextRecord == ParseCandidate

SpecRecord == InitRecord /\ [][NextRecord]_vars

----------------------------------------------------------------------------
(* Global patterns of a Profile.  A Profile is a function from ocr tokens  *)
(* to the candidates of their interpretations; of a candidate only the two *)
(* pattern lists are kept, of a pattern Left, Right and Prob.              *)

ProbPattern(left, right, prob) == [Left |-> left, Right |-> right, Prob |-> prob]

\* two patterns with one Left and Right and two Probs, and two with another
\* Left and Right whose Left + ":" + Right is the same
PA1 == ProbPattern(<<"a">>, <<"b">>, 1)
PA2 == ProbPattern(<<"a">>, <<"b">>, 2)
PB == ProbPattern(<<"a", ":">>, <<"b">>, 3)
PC == ProbPattern(<<"a">>, <<":", "b">>, 4)

ProfileCandidates ==
    {[HistPatterns |-> <<PA1>>, OCRPatterns |-> <<>>],
     [HistPatterns |-> <<PA2>>, OCRPatterns |-> <<PB>>],
     [HistPatterns |-> <<>>, OCRPatterns |-> <<PA1, PA2>>],
     [HistPatterns |-> <<PB, PC>>, OCRPatterns |-> <<PA2>>],
     [HistPatterns |-> <<>>, OCRPatterns |-> <<>>]}

\* Interpretation.Candidates: none, one or two candidates
Interpretations ==
    {<<>>} \cup {<<c>> : c \in ProfileCandidates}
           \cup {<<c, d>> : c \in ProfileCandidates, d \in ProfileCandidates}

\* the ocr tokens of a Profile
ProfileKeys == 1..MaxEntries

Profiles == UNION {[K -> Interpretations] : K \in SUBSET ProfileKeys}

\* the orders in which a range statement may visit the keys of the map p
RangeOrders(p) ==
    {o \in [1..Cardinality(DOMAIN p) -> DOMAIN p] :
        \A i, j \in DOMAIN o : i # j => o[i] # o[j]}

\* p.Left + ":" + p.Right
PatternKey(pat) == pat.Left \o <<":">> \o pat.Right

\* a scan of both pattern lists of c
PatternsOfBoth(c, kind) == c.HistPatterns \o c.OCRPatterns

\* the pattern list of the candidate c that an accessor scans
PatternsOf(c, kind) == IF kind = "hist" THEN c.HistPatterns ELSE c.OCRPatterns

\* the patterns of the candidates cs in the order of the two inner loops
RECURSIVE ScanCandidates(_, _)
ScanCandidates(cs, kind) ==
    IF cs = <<>> THEN <<>>
    ELSE PatternsOf(Head(cs), kind) \o ScanCandidates(Tail(cs), kind)

\* the patterns of p in the order of the three loops, the outer one
\* visiting the keys in the order o
RECURSIVE ScanProfile(_, _, _)
ScanProfile(p, o, kind) ==
    IF o = <<>> THEN <<>>
    ELSE ScanCandidates(p[Head(o)], kind) \o ScanProfile(p, Tail(o), kind)

\* ret[key] = prob
Put(ret, key, prob) ==
    [k \in DOMAIN ret \cup {key} |-> IF k = key THEN prob ELSE ret[k]]

\* the assignments of the innermost loop for the patterns ps
RECURSIVE PutAll(_, _)
PutAll(ret, ps) ==
    IF ps = <<>> THEN ret
    ELSE PutAll(Put(ret, PatternKey(Head(ps)), Head(ps).Prob), Tail(ps))

InitProfile ==
    /\ Idle /\ lastExitErr = NilErr
    /\ op = "none" /\ arg \in Profiles /\ res = <<>> /\ rt = <<>>

\* p.GlobalHistPatterns() (kind "hist") and p.GlobalOCRPatterns() (kind
\* "ocr") for the Profile arg; rt is the Profile after the call
GlobalPatterns(kind) ==
    /\ op = "none"
    /\ \E o \in RangeOrders(arg) :
          res' = PutAll(<<>>, ScanProfile(arg, o, kind))
    /\ op' = kind
    /\ rt' = arg
    /\ UNCHANGED arg
    /\ UNCHANGED driverVars
    /\ UNCHANGED runs

GlobalHistPatterns == GlobalPatterns("hist")

GlobalOCRPatterns == GlobalPatterns("ocr")

NextProfile == GlobalHistPatterns \/ GlobalOCRPatterns

SpecProfile == InitProfile /\ [][NextProfile]_vars

----------------------------------------------------------------------------
(* Language configurations *)

\* the bytes of the file names, in the order of their values
ByteOrder == <<".", "A", "B", "I", "N", "a", "b", "i", "n">>

ByteRank(c) == CHOOSE k \in 1..Len(ByteOrder) : ByteOrder[k] = c

\* a < b for two strings, as sort.Slice of ioutil.ReadDir compares names
RECURSIVE NameLess(_, _)
NameLess(a, b) ==
    IF b = <<>> THEN FALSE
    ELSE IF a = <<>> THEN TRUE
    ELSE IF Head(a) # Head(b) THEN ByteRank(Head(a)) < ByteRank(Head(b))
    ELSE NameLess(Tail(a), Tail(b))

\* unicode.ToLower on a byte
LowerByte(c) ==
    CASE c = "A" -> "a"
      [] c = "B" -> "b"
      [] c = "I" -> "i"
      [] c = "N" -> "n"
      [] OTHER -> c

\* strings.ToLower
ToLower(str) == [i \in 1..Len(str) |-> LowerByte(str[i])]

\* strings.HasSuffix
HasSuffix(str, suf) ==
    /\ Len(str) >= Len(suf)
    /\ SubSeq(str, Len(str) - Len(suf) + 1, Len(str)) = suf

Suf == <<".", "i", "n", "i">>

\* the backend argument
Backend == <<"b">>

\* filepath.Join(backend, name)
Join(dir, name) == dir \o <<"/">> \o name

LanguageConfiguration(language, path) == [Language |-> language, Path |-> path]

ErrorLanguageNotFound == Error("", "laguage configuration not found")

\* the loop of ListLanguages over the entries fis, lcs the list so far
RECURSIVE ListLoop(_, _)
ListLoop(fis, lcs) ==
    IF fis = <<>> THEN lcs
    ELSE LET fi == Head(fis) IN
         IF fi.dir THEN ListLoop(Tail(fis), lcs)
         ELSE IF HasSuffix(fi.name, Suf)
         THEN ListLoop(Tail(fis),
                  Append(lcs, LanguageConfiguration(
                      ToLower(SubSeq(fi.name, 1, Len(fi.name) - Len(Suf))),
                      Join(Backend, fi.name))))
         ELSE ListLoop(Tail(fis), lcs)

\* ListLanguages(backend) when ioutil.ReadDir returns fis, or an error
ListLanguages(fis, readErr) ==
    IF readErr THEN [lcs |-> <<>>, err |-> Error("cannot list languages", "open")]
    ELSE [lcs |-> ListLoop(fis, <<>>), err |-> NilErr]

\* a search for the language as it was given
SearchExact(language) == language

\* search := strings.ToLower(language)
Search(language) == ToLower(language)

\* the loop of FindLanguage over lcs
RECURSIVE FindLoop(_, _)
FindLoop(lcs, search) ==
    IF lcs = <<>>
    THEN [lc |-> LanguageConfiguration(<<>>, <<>>), err |-> ErrorLanguageNotFound]
    ELSE IF ToLower(Head(lcs).Language) = search
    THEN [lc |-> Head(lcs), err |-> NilErr]
    ELSE FindLoop(Tail(lcs), search)

\* FindLanguage(backend, language)
FindLanguage(fis, readErr, language) ==
    LET l == ListLanguages(fis, readErr) IN
    IF l.err # NilErr
    THEN [lc |-> LanguageConfiguration(<<>>, <<>>), err |-> l.err]
    ELSE FindLoop(l.lcs, Search(language))

\* names of entries of the backend directory
FileNames ==
    {<<"a", ".", "i", "n", "i">>, <<"A", ".", "i", "n", "i">>,
     <<"B", ".", "i", "n", "i">>, <<"a", ".", "I", "N", "I">>,
     <<".", "i", "n", "i">>, <<"a">>, <<"i", "n", "i">>}

\* what ioutil.ReadDir may return: entries sorted by name, each a directory
\* or not
Listings ==
    UNION {{fis \in [1..n -> [name : FileNames, dir : BOOLEAN]] :
               \A i \in 1..(n - 1) : NameLess(fis[i].name, fis[i + 1].name)} :
           n \in 0..MaxFiles}

\* the languages asked for
Languages == {<<"a">>, <<"A">>, <<"b">>, <<"n">>, <<>>}

LanguageArgs ==
    {[fis |-> fis, readErr |-> FALSE, language |-> l] :
        fis \in Listings, l \in Languages}
    \cup {[fis |-> <<>>, readErr |-> TRUE, language |-> l] : l \in Languages}

InitLanguage ==
    /\ Idle /\ lastExitErr = NilErr
    /\ op = "none" /\ arg \in LanguageArgs /\ res = <<>> /\ rt = <<>>

CallListLanguages ==
    /\ op = "none"
    /\ op' = "ListLanguages"
    /\ res' = ListLanguages(arg.fis, arg.readErr)
    /\ UNCHANGED <<arg, rt>>
    /\ UNCHANGED driverVars
    /\ UNCHANGED runs

CallFindLanguage ==
    /\ op = "none"
    /\ op' = "FindLanguage"
    /\ res' = FindLanguage(arg.fis, arg.readErr, arg.language)
    /\ UNCHANGED <<arg, rt>>
    /\ UNCHANGED driverVars
    /\ UNCHANGED runs

NextLanguage == CallListLanguages \/ CallFindLanguage

SpecLanguage == InitLanguage /\ [][NextLanguage]_vars

----------------------------------------------------------------------------
(* Concurrent calls of Run on one Profiler with a logger (src/profiler.go). *)
(* The variables of Profiler.run are those of runs[i] for the call i; the   *)
(* goroutines of os/exec that copy stdout and stderr are part of the step   *)
(* of the subprocess that writes.  Each subprocess writes one line to       *)
(* stderr, a byte at a time, and at most one document to stdout.            *)

\* the variables that belong to the single call of the other specifications
soloVars ==
    <<pc, driver, mode, hasLog, tokens, ctxDone, proc, exitCode, waited,
      blocked, inIdx, inPipe, inClosed, outPipe, buf, outDone, decIn,
      errPipe, errRead, errDone, buffer, callbacks, cbFailed, profile, err,
      lastExitErr>>

\* the byte the subprocess of the call i writes to stderr before a newline
Letter(i) == <<"a", "b", "c", "d">>[i]

\* what the subprocess of the call i writes to stderr
StderrLine(i) == <<Letter(i), NL>>

\* the documents a subprocess writes to stdout
Documents == {<<"null">>, <<"open", "ok", "close">>}

\* a logwriter that all calls of the Profiler share
LwOfShared(i) == CHOOSE k \in DOMAIN runs : \A l \in DOMAIN runs : k <= l

\* the logwriter run makes for the call i: &logwriter{logger: p.Log}
LwOf(i) == i

\* run up to the start of the subprocess inside cmd.Run, for the call that
\* comes after the calls so far
RunCall(fail) ==
    /\ pc = "idle" /\ op = "none"
    /\ Len(runs) < MaxCalls
    /\ logged' = Append(logged, CmdLine)
    /\ runs' = Append(runs,
           [pc |-> IF fail THEN "returned" ELSE "running",
            proc |-> IF fail THEN "none" ELSE "running",
            exitCode |-> 0,
            wrote |-> <<>>,
            errWrote |-> <<>>,
            buf |-> <<>>,
            buffer |-> <<>>,
            profile |-> NilProfile,
            err |-> IF fail THEN ExecError("buffered", "not found")
                    ELSE NilErr])
    /\ UNCHANGED soloVars
    /\ UNCHANGED <<op, arg, res, rt>>

\* the subprocess of the call i writes doc to stdout; it ends up in the
\* bytes.Buffer of the call
RunStdout(i, doc) ==
    /\ i \in DOMAIN runs
    /\ runs[i].proc = "running"
    /\ runs[i].wrote = <<>>
    /\ runs' = [runs EXCEPT ![i].wrote = doc, ![i].buf = runs[i].buf \o doc]
    /\ UNCHANGED soloVars
    /\ UNCHANGED <<logged, op, arg, res, rt>>

\* the subprocess of the call i writes the next byte of its line to stderr;
\* the logwriter of the call gets it in one Write
RunStderr(i) ==
    /\ i \in DOMAIN runs
    /\ runs[i].proc = "running"
    /\ Len(runs[i].errWrote) < Len(StderrLine(i))
    /\ LET b == StderrLine(i)[Len(runs[i].errWrote) + 1]
           lw == LwOf(i)
           r == LwWrite(runs[lw].buffer, logged, <<b>>)
       IN /\ logged' = r.logged
          /\ runs' = [k \in DOMAIN runs |->
                        [[runs[k] EXCEPT
                             !.errWrote = IF k = i THEN Append(@, b) ELSE @]
                          EXCEPT !.buffer = IF k = lw THEN r.buffer ELSE @]]
    /\ UNCHANGED soloVars
    /\ UNCHANGED <<op, arg, res, rt>>

\* the subprocess of the call i exits with status code
RunExit(i, code) ==
    /\ i \in DOMAIN runs
    /\ runs[i].proc = "running"
    /\ runs' = [runs EXCEPT ![i].proc = "exited", ![i].exitCode = code]
    /\ UNCHANGED soloVars
    /\ UNCHANGED <<logged, op, arg, res, rt>>

\* cmd.Run of the call i returns, then f decodes the buffer of the call
RunReturn(i) ==
    /\ i \in DOMAIN runs
    /\ runs[i].pc = "running"
    /\ runs[i].proc = "exited"
    /\ LET cause == WaitCause("exited", runs[i].exitCode)
           r == Decode(runs[i].buf, TRUE, NilProfile)
       IN runs' = [runs EXCEPT
              ![i].pc = "returned",
              ![i].profile = IF cause = "nil" THEN r.profile ELSE @,
              ![i].err = IF cause # "nil" THEN ExecError("buffered", cause)
                         ELSE ReadError("buffered", "Run", r.cause)]
    /\ UNCHANGED soloVars
    /\ UNCHANGED <<logged, op, arg, res, rt>>

NextRuns ==
    \/ \E fail \in BOOLEAN : RunCall(fail)
    \/ \E i \in 1..MaxCalls :
          \/ \E doc \in Documents : RunStdout(i, doc)
          \/ RunStderr(i)
          \/ \E code \in {0, 1} : RunExit(i, code)
          \/ RunReturn(i)

SpecRuns == Init /\ [][NextRuns]_vars

----------------------------------------------------------------------------
(* Vocabulary of the properties *)

\* the positions of the newlines of s
NLPos(s) == {i \in 1..Len(s) : s[i] = NL}

\* the position of the n-th newline of s
NthNL(s, n) ==
    CHOOSE i \in NLPos(s) : Cardinality({j \in NLPos(s) : j <= i}) = n

\* the position of the last newline of s, 0 if it has none
LastNL(s) == IF NLPos(s) = {} THEN 0 ELSE NthNL(s, Cardinality(NLPos(s)))

\* the newline-terminated lines of s, without their newlines
CompleteLines(s) ==
    [n \in 1..Cardinality(NLPos(s)) |->
        SubSeq(s, (IF n = 1 THEN 1 ELSE NthNL(s, n - 1) + 1), NthNL(s, n) - 1)]

IsPrefix(a, b) == Len(a) <= Len(b) /\ a = SubSeq(b, 1, Len(a))

\* all the bytes the subprocess has written to stderr
ErrWritten == errRead \o errPipe

\* the Log calls after the driver's own first one
StderrLogged == IF logged = <<>> THEN <<>> ELSE Tail(logged)

----------------------------------------------------------------------------
(* Properties *)

\* C1: once the context is done, no subprocess is running (one that ran
\* when the context became done has been killed), and a call whose
\* subprocess was killed returns, with a non-nil error, whatever the tokens
\* and whatever the subprocess did
C1_CancelEndsCall ==
    /\ [](ctxDone => proc # "running")
    /\ (proc = "killed") ~> (pc = "returned" /\ err # NilErr)

\* C1 happens: the subprocess never read all of its stdin, was killed, and
\* the call has returned the error of the kill
C1_Witness ==
    /\ pc = "returned"
    /\ proc = "killed"
    /\ inIdx < Len(tokens)
    /\ err.cause = "signal: killed"

\* C2: the error of a call that ended because the context was done differs
\* from the error of a call that ended because the subprocess exited by
\* itself with a non-zero status
C2_CancelErrorDistinct == EndedByCancel => err # lastExitErr

\* the writer of the tokens cannot go on: the stdin pipe is full
WriterBlocked ==
    /\ proc = "running"
    /\ inIdx < Len(tokens)
    /\ Len(inPipe) = InCap
    /\ \/ driver = "piped" /\ pc = "writing"
       \/ driver = "buffered" /\ ~inClosed

\* the subprocess cannot go on: it is in a write to the full stdout pipe
ProcBlocked ==
    /\ proc = "running"
    /\ blocked # "none"
    /\ Len(outPipe) = OutCap

\* somebody reads the stdout pipe
ReaderRuns == ENABLED (DecodeStep \/ ScanStep(FALSE) \/ StdoutCopy)

\* C3: writer and reader progress together: the writer is never blocked on
\* the full stdin pipe, with the subprocess blocked on the full stdout
\* pipe, while nobody reads stdout
C3_NoPipeDeadlock == ~(WriterBlocked /\ ProcBlocked /\ ~ReaderRuns)

\* C4: once the callback has returned an error the scanner loop is left
\* (no later line gets a callback), RunFunc has returned a non-nil error,
\* and the subprocess has ended and has been waited on
C4_CallbackErrorReaps ==
    cbFailed =>
        /\ pc = "returned"
        /\ err # NilErr
        /\ proc \in {"exited", "killed"}
        /\ waited

\* C5: a non-nil error of Run comes with an empty Profile
C5_NoPartialProfile ==
    (pc = "returned" /\ mode = "Run" /\ err # NilErr) => profile.members = <<>>

\* the error is one of the output decoder
IsReadError(e) ==
    e.prefix \in {"cannot read profile", "run profiler: cannot decode profile",
                  "run profiler: read candidate"}

\* C6: the call returns nil exactly if the subprocess was started, every
\* token was written, the subprocess exited with status zero and the
\* decoder reported no error
C6_NilIffAllSucceeded ==
    pc = "returned" =>
        (err = NilErr <=>
            /\ proc = "exited" /\ exitCode = 0
            /\ inIdx = Len(tokens)
            /\ ~IsReadError(err)
            /\ ~cbFailed)

\* C7: whatever the Write calls, the logger has been called once for each
\* newline-terminated line of the bytes written so far, with the bytes of
\* the line without the newline, in the order of the lines
C7_OneLogPerLine == logged = CompleteLines(errRead)

\* C7 happens: several lines, an empty one among them, were logged and a
\* partial line is kept
C7_Witness ==
    /\ Len(logged) >= 2
    /\ \E i \in 1..Len(logged) : logged[i] = <<>>
    /\ \E i \in 1..Len(logged) : logged[i] # <<>>
    /\ buffer # <<>>

\* the bytes of the stderr lines logged so far, newlines put back
LoggedBytes == Concat([i \in 1..Len(StderrLogged) |-> StderrLogged[i] \o <<NL>>])

\* C8: every byte logged lies before the last newline the subprocess wrote
\* to stderr: the bytes after it are never passed to the logger (and when
\* the call is over they are what the line buffer still holds)
C8_PartialLineNotLogged ==
    hasLog =>
        /\ IsPrefix(LoggedBytes, SubSeq(ErrWritten, 1, LastNL(ErrWritten)))
        /\ errDone => buffer = From(ErrWritten, LastNL(ErrWritten) + 1)

\* C8 happens: the call is over, the subprocess wrote a line and then a
\* partial line, and the partial line is in the buffer, not logged
C8_Witness ==
    /\ pc = "returned"
    /\ errDone
    /\ LastNL(ErrWritten) > 0
    /\ buffer # <<>>
    /\ Len(logged) = 2

\* C9, as claimed: the subprocess wrote N newline-terminated lines to
\* stderr and the call has waited for it and returned; the logger was
\* invoked exactly N times, with the lines
C9_ExactlyNLogs ==
    (hasLog /\ pc = "returned" /\ waited) => logged = CompleteLines(ErrWritten)

\* C9, amended: the logger was invoked N + 1 times, first with the
\* command line of the driver and then with the N lines in order, when the
\* call returns after waiting for the subprocess; when it returns without
\* waiting, with the command line and the first lines
C9_CmdLineAndNLogs ==
    (hasLog /\ pc = "returned") =>
        /\ IsPrefix(logged, <<CmdLine>> \o CompleteLines(ErrWritten))
        /\ waited => logged = <<CmdLine>> \o CompleteLines(ErrWritten)

\* C9 happens: two lines on stderr, three logger invocations
C9_Witness ==
    /\ hasLog /\ pc = "returned" /\ waited
    /\ Cardinality(NLPos(ErrWritten)) = 2
    /\ Len(logged) = 3

\* C10: with a logger, the first invocation is the command line, made
\* before the subprocess is started; the later ones are the complete
\* stderr lines consumed so far, in order; without a logger nothing is
\* logged
C10_CmdLineFirst ==
    /\ (hasLog /\ pc # "idle") =>
          /\ logged # <<>>
          /\ Head(logged) = CmdLine
          /\ Tail(logged) = CompleteLines(errRead)
    /\ (hasLog /\ pc = "start") => (proc = "none" /\ logged = <<CmdLine>>)
    /\ ~hasLog => logged = <<>>

\* C10 happens: the subprocess runs and a stderr line follows the command
\* line
C10_Witness ==
    /\ hasLog
    /\ proc = "running"
    /\ Len(logged) = 2
    /\ logged[2] = <<"a">>

\* no stdout line of the subprocess fails to parse
NoBadLine == \A i \in 1..Len(Emitted) : ~MakeCandidateFails(Emitted[i])

C12_ConsumedWhileRunning ==
    (/\ mode = "RunFunc"
     /\ pc \notin {"idle", "returned"}
     /\ proc = "running"
     /\ inClosed
     /\ Source # <<>>) => ENABLED ScanStep(FALSE)

\* C13: in Run, the JSON decoder consumes output only of a subprocess that
\* has ended: no step of the decoder is taken while the subprocess runs
C13_DecodeAfterExit == [][DecodeStep => proc # "running"]_vars

\* the phase of the invocation
Phase ==
    IF pc = "idle" THEN "Idle"
    ELSE IF pc = "start" THEN "Launching"
    ELSE IF pc = "returned" THEN (IF err = NilErr THEN "Succeeded" ELSE "Failed")
    ELSE IF proc = "running" THEN "Running"
    ELSE "Exited"

\* the order of the phases
PhaseRank(ph) ==
    CASE ph = "Idle" -> 0
      [] ph = "Launching" -> 1
      [] ph = "Running" -> 2
      [] ph = "Exited" -> 3
      [] ph \in {"Succeeded", "Failed"} -> 4

\* the order of the states of the subprocess
ProcRank(p) == IF p = "none" THEN 0 ELSE IF p = "running" THEN 1 ELSE 2

\* C14: within one call the phase moves forward only, Idle, Launching,
\* Running, Exited, Succeeded or Failed; the start of the subprocess is
\* attempted in Launching only and ends Launching, so it is attempted at
\* most once; a subprocess starts only there and never runs again once it
\* has ended; a call that has returned stays returned with its error; and
\* a call that returned nil started a subprocess, which exited
C14_ForwardOnly ==
    /\ []((pc = "returned" /\ err = NilErr) => (proc = "exited" /\ waited))
    /\ [][/\ PhaseRank(Phase') >= PhaseRank(Phase)
          /\ ProcRank(proc') >= ProcRank(proc)
          /\ (proc' = "running" /\ proc # "running") =>
                (Phase = "Launching" /\ proc = "none")
          /\ (\E fail \in {"none", "start", "stdin", "stdout"} : Start(fail)) =>
                PhaseRank(Phase') > PhaseRank(Phase)
          /\ pc = "returned" => (pc' = "returned" /\ err' = err)]_vars

\* C14 happens: the call failed after its subprocess had run and exited
\* with a non-zero status
C14_Witness ==
    /\ Phase = "Failed"
    /\ proc = "exited" /\ exitCode = 1
    /\ err.cause = "exit status 1"
    /\ waited

\* the bytes of the stdin stream of the call, when all of it is written
StdinStream == Concat(writeTokens(tokens))

\* C15: the stdin stream is the string of each token and a newline after
\* it, in the order of the tokens, and nothing else: cut at its newlines it
\* gives back the token strings and nothing follows the last newline; what
\* is in the pipe is the lines written and not yet read, in order; the
\* stream is closed once the writer is done, after the last token or after
\* a write that failed, and nothing is written after the close
C15_StdinStream ==
    /\ [](/\ CompleteLines(StdinStream) =
                [i \in 1..Len(tokens) |-> TokenString(tokens[i])]
          /\ LastNL(StdinStream) = Len(StdinStream)
          /\ inIdx <= Len(tokens)
          /\ Len(inPipe) <= inIdx
          /\ inPipe = SubSeq(writeTokens(tokens),
                             inIdx - Len(inPipe) + 1, inIdx)
          /\ (inClosed /\ proc = "running") => inIdx = Len(tokens)
          /\ (pc \in {"reading", "decoding"}) => inClosed
          /\ (pc = "returned" /\ proc # "none") => inClosed)
    /\ [][inClosed => (inClosed' /\ inIdx' = inIdx)]_vars

\* C15 happens: the first of two tokens was written, the write of the
\* second failed, and the stream is closed
C15_Witness ==
    /\ pc = "returned"
    /\ err = WriteError("broken pipe")
    /\ Len(tokens) = 2
    /\ inIdx = 1
    /\ inClosed

\* C16: String gives "#" and LE when LE is not empty, whatever OCR and
\* COR are, and OCR, one ":" and COR otherwise, which ends in ":" when
\* there is no correction; it gives a string for every token, whatever
\* bytes the fields hold
C16_TokenString ==
    /\ op = "none" => ENABLED StringOfToken
    /\ op = "String" =>
          /\ arg.LE # <<>> => res = <<"#">> \o arg.LE
          /\ arg.LE = <<>> =>
                /\ SubSeq(res, 1, Len(arg.OCR)) = arg.OCR
                /\ res[Len(arg.OCR) + 1] = ":"
                /\ From(res, Len(arg.OCR) + 2) = arg.COR
                /\ Len(res) = Len(arg.OCR) + 1 + Len(arg.COR)
          /\ (arg.LE = <<>> /\ arg.COR = <<>>) => res[Len(res)] = ":"

\* C16 happens: a token with all three fields set, rendered as a lexicon
\* entry
C16_Witness ==
    /\ op = "String"
    /\ arg.LE = <<"a">> /\ arg.OCR = <<":">> /\ arg.COR = <<"#">>
    /\ res = <<"#", "a">>

\* the options at the end of the list: --types iff Types, then --adaptive
\* iff Adaptive
OptionFlags(types, adaptive) ==
    (IF types THEN <<"--types">> ELSE <<>>) \o
    (IF adaptive THEN <<"--adaptive">> ELSE <<>>)

\* the list of batch mode
BatchList(config) ==
    <<"--config", config, "--sourceFormat", "EXT", "--sourceFile",
      "/dev/stdin", "--jsonOutput", "/dev/stdout">>

\* C17, as claimed: the list of batch mode is --config <path>
\* --sourceFormat EXT --sourceFile /dev/stdin --jsonOutput /dev/stdout,
\* then --types iff Types, then --adaptive iff Adaptive; the list of
\* streamed mode is that list with --simpleOutput where --jsonOutput is
C17_ArgsAsClaimed ==
    op = "args" =>
        res = (IF arg.mode = "Run"
               THEN BatchList(arg.config)
               ELSE [BatchList(arg.config) EXCEPT ![7] = "--simpleOutput"])
              \o OptionFlags(arg.Types, arg.Adaptive)

\* C17, amended: batch mode as claimed; the list of streamed mode is
\* --config <path> --sourceFormat EXT --sourceFile /dev/stdin
\* --simpleOutput, with no /dev/stdout after it, then --types iff Types,
\* then --adaptive iff Adaptive
C17_Args ==
    op = "args" =>
        res = (IF arg.mode = "Run"
               THEN BatchList(arg.config)
               ELSE SubSeq(BatchList(arg.config), 1, 6) \o <<"--simpleOutput">>)
              \o OptionFlags(arg.Types, arg.Adaptive)

\* C17 happens: streamed mode with both options
C17_Witness ==
    /\ op = "args"
    /\ arg.mode = "RunFunc" /\ arg.Types /\ arg.Adaptive
    /\ Len(res) = 9
    /\ res[7] = "--simpleOutput" /\ res[8] = "--types"
    /\ res[9] = "--adaptive"

\* s holds the byte c
Holds(s, c) == \E i \in 1..Len(s) : s[i] = c

\* C18: for every pattern p that MakePattern returned without an error,
\* MakePattern(p.String()) returns no error and a pattern with the Left,
\* Right and Pos of p and Prob zero
C18_PatternRoundTrip ==
    /\ (op = "MakePattern" /\ res.ok) => MakePattern(PatternString(res.p)).ok
    /\ op = "round trip" =>
          /\ rt.ok
          /\ rt.p.Left = res.p.Left
          /\ rt.p.Right = res.p.Right
          /\ rt.p.Pos = res.p.Pos
          /\ rt.p.Prob = 0

\* C18 happens: the round trip of a pattern with a ":" and a parenthesis
\* in Left and a "," in Right
C18_Witness ==
    /\ op = "round trip"
    /\ Holds(res.p.Left, ":") /\ Holds(res.p.Left, "(")
    /\ Holds(res.p.Right, ",")
    /\ rt.ok /\ rt.p = res.p

\* text has the shape (left:right,pos), pos the digits of an int
WellFormedPattern(text) ==
    /\ Len(text) >= 5
    /\ text[1] = "(" /\ text[Len(text)] = ")"
    /\ \E c \in 2..Len(text), k \in 2..Len(text) :
          /\ c < k /\ k < Len(text) - 1
          /\ text[c] = ":" /\ text[k] = ","
          /\ \A i \in (k + 1)..(Len(text) - 1) : text[i] \in Digits
          /\ Atoi(SubSeq(text, k + 1, Len(text) - 1)).ok

\* C20: MakePattern returns an error for every text that is not of the
\* shape (left:right,pos) with pos a valid int that is not negative
C20_MalformedPatternFails ==
    (op = "MakePattern" /\ ~WellFormedPattern(arg)) => ~res.ok

\* C19: for every candidate c and ocr token t that MakeCandidate returned
\* without an error, MakeCandidate(t + "@" + c.String()) returns no error,
\* the ocr token t and a candidate with the Suggestion, Modern, Dict,
\* Distance and the two pattern lists of c
C19_CandidateRoundTrip ==
    op = "round trip" =>
        /\ rt.ok
        /\ rt.ocr = res.ocr
        /\ rt.c.Suggestion = res.c.Suggestion
        /\ rt.c.Modern = res.c.Modern
        /\ rt.c.Dict = res.c.Dict
        /\ rt.c.Distance = res.c.Distance
        /\ rt.c.HistPatterns = res.c.HistPatterns
        /\ rt.c.OCRPatterns = res.c.OCRPatterns

\* C19 happens: the round trip of a candidate with two historical
\* patterns and one ocr pattern, taken from a line whose text is not the
\* one String renders
C19_Witness ==
    /\ op = "round trip"
    /\ Len(res.c.HistPatterns) = 2
    /\ Len(res.c.OCRPatterns) = 1
    /\ res.ocr \o <<"@">> \o CandidateString(res.c, arg.verb) # arg.expr
    /\ rt.ok /\ rt.c = res.c

\* text is zero or more texts of the shape (left:right,pos), one after the
\* other
RECURSIVE IsPatternList(_)
IsPatternList(text) ==
    \/ text = <<>>
    \/ \E k \in 1..Len(text) :
          /\ WellFormedPattern(SubSeq(text, 1, k))
          /\ IsPatternList(SubSeq(text, k + 1, Len(text)))

\* the texts between the brackets of the two pattern lists of expr
ListsOf(expr) ==
    LET m == FindStringSubmatch(expr, CandidateRE) IN
    [hist |-> m.caps[4], ocr |-> m.caps[5]]

\* C22: MakeCandidate returns an error whenever the text between the
\* brackets of the historical or of the ocr pattern list is not zero or
\* more valid patterns one after the other
C22_BadListFails ==
    (op = "MakeCandidate" /\ res.ok) =>
        /\ IsPatternList(ListsOf(arg.expr).hist)
        /\ IsPatternList(ListsOf(arg.expr).ocr)

\* the HistPatterns (kind "hist") or the OCRPatterns of the candidate c
ListOf(c, kind) == IF kind = "hist" THEN c.HistPatterns ELSE c.OCRPatterns

\* the patterns in the lists of the given kind of all candidates of p
AllPatterns(p, kind) ==
    UNION {UNION {{ListOf(p[k][i], kind)[j] :
                      j \in DOMAIN ListOf(p[k][i], kind)} :
                  i \in DOMAIN p[k]} :
           k \in DOMAIN p}

\* the map ret is what the claim says of the accessor of the given kind
ExactMap(ret, p, kind) ==
    /\ DOMAIN ret = {PatternKey(pat) : pat \in AllPatterns(p, kind)}
    /\ \A key \in DOMAIN ret :
          \E pat \in AllPatterns(p, kind) :
              PatternKey(pat) = key /\ pat.Prob = ret[key]

\* C23: the keys of GlobalHistPatterns() are exactly the Left + ":" + Right
\* of the patterns of the HistPatterns lists of all candidates, each value
\* the Prob of such a pattern with that key; the same for
\* GlobalOCRPatterns() and the OCRPatterns lists; the Profile is unchanged
C23_GlobalPatterns ==
    /\ op = "hist" => (ExactMap(res, arg, "hist") /\ rt = arg)
    /\ op = "ocr" => (ExactMap(res, arg, "ocr") /\ rt = arg)

\* C23 happens: GlobalHistPatterns() of a Profile with two historical
\* patterns of one key and two Probs, and with an ocr pattern whose key no
\* historical pattern has
C23_Witness ==
    /\ op = "hist"
    /\ \E x, y \in AllPatterns(arg, "hist") :
          PatternKey(x) = PatternKey(y) /\ x.Prob # y.Prob
    /\ \E x \in AllPatterns(arg, "ocr") : PatternKey(x) \notin DOMAIN res
    /\ res # <<>>

\* C21: MakeCandidate accepts a well-formed record without the ocr token
\* and the @ before it, returning an empty ocr token, and with them,
\* returning the text before the @ as the ocr token
C21_PrefixOptional ==
    op = "MakeCandidate" =>
        /\ res.ok
        /\ res.ocr = arg.ocr

\* C24: when Run of the buffered driver returns after the subprocess exited
\* with status zero having written nothing, null or an empty object to
\* stdout, it returns a nil error and a Profile without interpretations
C24_EmptyOutputs ==
    (/\ pc = "returned" /\ mode = "Run" /\ driver = "buffered"
     /\ proc = "exited" /\ exitCode = 0
     /\ Emitted \in {<<>>, <<"null">>, <<"open", "close">>}) =>
        /\ err = NilErr
        /\ profile.members = <<>>

\* a and b are equal when the case of their letters is ignored
EqualIgnoringCase(a, b) ==
    /\ Len(a) = Len(b)
    /\ \A i \in 1..Len(a) : LowerByte(a[i]) = LowerByte(b[i])

\* the entries of fis that are no directories and whose name ends in .ini
IniFiles(fis) ==
    SelectSeq(fis, LAMBDA fi : ~fi.dir /\ HasSuffix(fi.name, Suf))

\* C25: ListLanguages lists exactly the entries that are no directories and
\* whose name ends in .ini, each with its lower-cased name without the
\* suffix; FindLanguage returns the first listed configuration whose name
\* equals the language when case is ignored, and ErrorLanguageNotFound
\* exactly when the listing succeeds and no listed configuration matches
C25_FindLanguage ==
    LET files == IniFiles(arg.fis)
        hits == {i \in 1..Len(files) :
                   EqualIgnoringCase(
                       SubSeq(files[i].name, 1, Len(files[i].name) - Len(Suf)),
                       arg.language)}
    IN /\ (op = "ListLanguages" /\ ~arg.readErr) =>
              /\ res.err = NilErr
              /\ Len(res.lcs) = Len(files)
              /\ \A i \in 1..Len(files) :
                    res.lcs[i].Language =
                       ToLower(SubSeq(files[i].name, 1,
                                      Len(files[i].name) - Len(Suf)))
       /\ op = "FindLanguage" =>
              /\ (res.err = ErrorLanguageNotFound) <=>
                     (~arg.readErr /\ hits = {})
              /\ (~arg.readErr /\ hits # {}) =>
                     LET first == CHOOSE i \in hits : \A j \in hits : i <= j IN
                     /\ res.err = NilErr
                     /\ res.lc.Path = Join(Backend, files[first].name)
                     /\ EqualIgnoringCase(res.lc.Language, arg.language)

\* C25 happens: FindLanguage for a language with an upper-case letter finds
\* a configuration in a directory that also holds a directory entry
C25_Witness ==
    /\ op = "FindLanguage"
    /\ arg.language # ToLower(arg.language)
    /\ res.err = NilErr
    /\ \E i \in 1..Len(arg.fis) : arg.fis[i].dir
    /\ res.lc.Language # <<>>

\* the logged line is the command line or bytes of one call only
OneCallOnly(line) ==
    \/ line = CmdLine
    \/ \E i \in DOMAIN runs : \A k \in 1..Len(line) : line[k] = Letter(i)

\* C26: with concurrent calls of Run on one Profiler, every logged stderr
\* line holds bytes of one call only, and what a call returns is decided
\* by what its own subprocess wrote to stdout and by its exit status
C26_Independent ==
    /\ \A n \in 1..Len(logged) : OneCallOnly(logged[n])
    /\ \A i, j \in DOMAIN runs :
          (/\ runs[i].pc = "returned" /\ runs[j].pc = "returned"
           /\ runs[i].proc = runs[j].proc
           /\ runs[i].wrote = runs[j].wrote
           /\ runs[i].exitCode = runs[j].exitCode) =>
              /\ runs[i].err = runs[j].err
              /\ runs[i].profile = runs[j].profile
    /\ \A i \in DOMAIN runs :
          (runs[i].pc = "returned" /\ runs[i].err = NilErr) =>
              /\ runs[i].wrote # <<>>
              /\ runs[i].profile.members =
                     SelectSeq(runs[i].wrote, LAMBDA x : x = "ok")

\* C26 happens: while one call holds the first byte of its line in its
\* buffer, the line of another call is logged, and both calls return
\* different profiles
C26_Witness ==
    \E i, j \in DOMAIN runs :
        /\ i # j
        /\ runs[i].pc = "returned" /\ runs[j].pc = "returned"
        /\ runs[i].err = NilErr /\ runs[j].err = NilErr
        /\ runs[i].profile # runs[j].profile
        /\ runs[i].buffer = <<Letter(i)>>
        /\ \E n \in 1..Len(logged) : logged[n] = <<Letter(j)>>

\* the subprocess was not started, exited with a status that is not zero,
\* or was killed
ProcFailed ==
    \/ pc = "returned" /\ proc = "none"
    \/ proc = "exited" /\ exitCode # 0
    \/ proc = "killed"

\* C27: in the buffered driver the callback of RunFunc is never invoked
\* when the subprocess was not started, exited with a status that is not
\* zero or was killed, whatever lines it wrote to stdout
C27_AllOrNothing ==
    (driver = "buffered" /\ mode = "RunFunc" /\ ProcFailed) =>
        callbacks = <<>>

\* C27 happens: a buffered RunFunc has returned an error after its
\* subprocess wrote two lines that parse and exited with status one
C27_Witness ==
    /\ driver = "buffered" /\ mode = "RunFunc"
    /\ pc = "returned"
    /\ proc = "exited" /\ exitCode # 0
    /\ Emitted = <<"ok", "ok2">>
    /\ err = ExecError("buffered", "exit status 1")
    /\ callbacks = <<>>

\* C28: however the bytes written so far were split into Write calls, the
\* logger calls are those of one Write of all the bytes; every Write
\* returns the length of its argument and a nil error; the buffer kept
\* holds no newline and is the bytes after the last newline so far
C28_ChunkingIndependent ==
    /\ logged = LwWrite(<<>>, <<>>, errRead).logged
    /\ op = "Write" => res = [n |-> Len(arg), err |-> NilErr]
    /\ \A i \in 1..Len(buffer) : buffer[i] # NL
    /\ buffer = From(errRead, LastNL(errRead) + 1)

\* C28 happens: a line too long for one Write was logged, bytes after it
\* are kept, and the last Write was an empty one
C28_Witness ==
    /\ op = "Write" /\ arg = <<>>
    /\ \E i \in 1..Len(logged) : Len(logged[i]) >= MaxChunk
    /\ buffer # <<>>

====
